---- MODULE Spec2Model ----
(***************************************************************************)
(* Model of the SpatialGrid plugin: the generational slot map (SlotMap.h)  *)
(* and the uniform grid built on it (Grid.h).                              *)
(*                                                                         *)
(* C++ containers are 0-based; a std::vector is a TLA+ sequence and        *)
(* element i of the vector is At(seq, i).                                  *)
(***************************************************************************)
EXTENDS Integers, Sequences, FiniteSets, TLC

\* ------------------------------------------------------------------ bounds
\* Width of the unsigned integers of the model (uint32_t in the source).
W == 3
\* Largest number of slots a run allocates.
MaxSlots == 3
\* Largest number of dense records a run holds.
MaxDense == 2
\* Largest slot version a run reaches (below the wrap of a W-bit version).
MaxVersion == 3
\* Largest number of elements a run of the grid holds.
MaxElements == 2

UINT32_MAX == 2^W - 1
UIntMod == 2^W

\* ------------------------------------------------------------- ElementId
ElementId(Idx, Ver) == [Index |-> Idx % UIntMod, Version |-> Ver % UIntMod]
DefaultElementId == [Index |-> 0, Version |-> 0]

\* std::optional<V>: a sequence holding no value or one value.
NullOpt == <<>>
Some(value) == <<value>>
\* A pointer into Dense is the index of the record it points at.
NullPtr == -1

At(seq, i) == seq[i + 1]
SetAt(seq, i, x) == [seq EXCEPT ![i + 1] = x]
PopBack(seq) == SubSeq(seq, 1, Len(seq) - 1)

\* -------------------------------------------------------------- TSlotMap
Slot(Version, IdxOrFree) == [Version |-> Version, IdxOrFree |-> IdxOrFree]
IsOccupied(slot) == (slot.Version % 2) # 0

EmptySlotMap == [Dense |-> <<>>, Slots |-> <<>>, FreeHead |-> 0]

\* version | 1
Or1(v) == IF v % 2 = 0 THEN v + 1 ELSE v

\* Insert giving a slot it appends version 0 in place of version 1.
InsertWithVersionZero(sm, value) ==
    LET id == ElementId(sm.FreeHead, 0)
        slots == Append(sm.Slots, Slot(0, Len(sm.Dense)))
    IN [map |-> [Dense |-> Append(sm.Dense, [first |-> id, second |-> value]),
                 Slots |-> slots,
                 FreeHead |-> Len(slots)],
        id |-> id, fault |-> "none"]

\* TSlotMap::Insert.  The result carries the new map, the returned id and
\* the fault the call ran into: "fatal" for the overflow log, "ub" when
\* Slots[index] is read past the end of the vector.
Insert(sm, value) ==
    IF Len(sm.Dense) >= UINT32_MAX
    THEN [map |-> sm, id |-> DefaultElementId, fault |-> "fatal"]
    ELSE LET index == sm.FreeHead IN
         IF index < Len(sm.Dense)
         THEN IF index >= Len(sm.Slots)
              THEN [map |-> sm, id |-> DefaultElementId, fault |-> "ub"]
              ELSE LET slot == At(sm.Slots, index)
                       version == Or1(slot.Version)
                       id == ElementId(index, version)
                   IN [map |-> [Dense |-> Append(sm.Dense, [first |-> id, second |-> value]),
                                Slots |-> SetAt(sm.Slots, index, Slot(version, Len(sm.Dense))),
                                FreeHead |-> slot.IdxOrFree],
                       id |-> id, fault |-> "none"]
         ELSE LET id == ElementId(index, 1)
                  slots == Append(sm.Slots, Slot(1, Len(sm.Dense)))
              IN [map |-> [Dense |-> Append(sm.Dense, [first |-> id, second |-> value]),
                           Slots |-> slots,
                           FreeHead |-> Len(slots)],
                  id |-> id, fault |-> "none"]

\* TSlotMap::Remove past its early returns: slot id.Index is occupied and has
\* the version of id.  fault is "check" when one of the two check() calls
\* fails (the call aborts before it changes anything).
RemoveOccupied(sm, id) ==
    LET slot == At(sm.Slots, id.Index)
        dense_idx == slot.IdxOrFree
    IN IF ~(dense_idx < Len(sm.Dense))
       THEN [map |-> sm, ret |-> NullOpt, fault |-> "check"]
       ELSE IF ~(At(sm.Dense, dense_idx).first.Index = id.Index)
       THEN [map |-> sm, ret |-> NullOpt, fault |-> "check"]
       ELSE LET value == At(sm.Dense, dense_idx).second
                freed == SetAt(sm.Slots, id.Index,
                               Slot((slot.Version + 1) % UIntMod, sm.FreeHead))
                last == Len(sm.Dense) - 1
                moved == At(sm.Dense, last)
                dense == IF dense_idx # last
                         THEN SetAt(sm.Dense, dense_idx, moved)
                         ELSE sm.Dense
                slots == IF dense_idx # last
                         THEN SetAt(freed, moved.first.Index,
                                    Slot(At(freed, moved.first.Index).Version, dense_idx))
                         ELSE freed
            IN [map |-> [Dense |-> PopBack(dense),
                         Slots |-> slots,
                         FreeHead |-> id.Index],
                ret |-> Some(value), fault |-> "none"]

\* Mutant of Remove: the version of the id is not compared with the slot's.
RemoveAnyVersion(sm, id) ==
    IF id.Index >= Len(sm.Slots)
    THEN [map |-> sm, ret |-> NullOpt, fault |-> "none"]
    ELSE IF ~IsOccupied(At(sm.Slots, id.Index))
    THEN [map |-> sm, ret |-> NullOpt, fault |-> "none"]
    ELSE RemoveOccupied(sm, id)

\* TSlotMap::Remove
Remove(sm, id) ==
    IF id.Index >= Len(sm.Slots)
    THEN [map |-> sm, ret |-> NullOpt, fault |-> "none"]
    ELSE IF ~IsOccupied(At(sm.Slots, id.Index)) \/ At(sm.Slots, id.Index).Version # id.Version
    THEN [map |-> sm, ret |-> NullOpt, fault |-> "none"]
    ELSE RemoveOccupied(sm, id)

\* TSlotMap::Get: the returned pointer &Dense[slot.IdxOrFree].second, as the
\* index of the dense record; NullPtr for nullptr.
Get(sm, id) ==
    IF id.Index >= Len(sm.Slots)
    THEN NullPtr
    ELSE LET slot == At(sm.Slots, id.Index) IN
         IF IsOccupied(slot) /\ slot.Version = id.Version
         THEN slot.IdxOrFree
         ELSE NullPtr

\* TSlotMap::Contains
Contains(sm, Id) ==
    IF Id.Index >= Len(sm.Slots)
    THEN FALSE
    ELSE LET slot == At(sm.Slots, Id.Index) IN
         IsOccupied(slot) /\ slot.Version # Id.Version

\* A pointer Get returned that points at a record of Dense.
Dereferenceable(sm, ptr) == ptr >= 0 /\ ptr < Len(sm.Dense)

\* Mutant of ApplyAt: ids whose index is in range are looked up and visited.
ApplyAtInRange(sm, id) ==
    IF id.Index >= Len(sm.Slots)
    THEN [visits |-> <<>>, fault |-> "none"]
    ELSE LET slot == At(sm.Slots, id.Index) IN
         IF IsOccupied(slot) /\ slot.Version = id.Version /\ slot.IdxOrFree < Len(sm.Dense)
         THEN [visits |-> <<At(sm.Dense, slot.IdxOrFree)>>, fault |-> "none"]
         ELSE [visits |-> <<>>, fault |-> "none"]

\* TSlotMap::ApplyAt: the sequence of (id, payload) pairs Func is called with.
\* Slots[id.Index] is read without a preceding range check that excludes
\* id.Index >= Slots.size(): that read is undefined behaviour ("ub").
ApplyAt(sm, id) ==
    IF id.Index < Len(sm.Slots)
    THEN [visits |-> <<>>, fault |-> "none"]
    ELSE IF id.Index >= Len(sm.Slots)
    THEN [visits |-> <<>>, fault |-> "ub"]
    ELSE LET slot == At(sm.Slots, id.Index) IN
         IF IsOccupied(slot) /\ slot.Version = id.Version
         THEN IF ~(slot.IdxOrFree < Len(sm.Dense))
              THEN [visits |-> <<>>, fault |-> "check"]
              ELSE [visits |-> <<At(sm.Dense, slot.IdxOrFree)>>, fault |-> "none"]
         ELSE [visits |-> <<>>, fault |-> "none"]

\* ------------------------------------------------------- vectors, FBox
\* FVector and FIntVector (CellIndex) are triples <<X, Y, Z>>.
VAdd(a, b) == <<a[1] + b[1], a[2] + b[2], a[3] + b[3]>>
VSub(a, b) == <<a[1] - b[1], a[2] - b[2], a[3] - b[3]>>
VScale(a, k) == <<a[1] * k, a[2] * k, a[3] * k>>
SizeSquared(a) == a[1] * a[1] + a[2] * a[2] + a[3] * a[3]
ZeroVector == <<0, 0, 0>>
Min2(a, b) == IF a < b THEN a ELSE b
Max2(a, b) == IF a > b THEN a ELSE b

\* FBox(Min, Max): a valid box.
FBox(min, max) == [Min |-> min, Max |-> max, IsValid |-> 1]
\* An FBox whose storage was zero-initialized.
ZeroBox == [Min |-> ZeroVector, Max |-> ZeroVector, IsValid |-> 0]
\* Mutant of FBox::operator+=: the box is replaced by the other one.
BoxReplace(box, other) == IF other.IsValid # 0 THEN other ELSE box

\* FBox::operator+=
BoxPlus(box, other) ==
    IF box.IsValid # 0 /\ other.IsValid # 0
    THEN [Min |-> <<Min2(box.Min[1], other.Min[1]), Min2(box.Min[2], other.Min[2]),
                    Min2(box.Min[3], other.Min[3])>>,
          Max |-> <<Max2(box.Max[1], other.Max[1]), Max2(box.Max[2], other.Max[2]),
                    Max2(box.Max[3], other.Max[3])>>,
          IsValid |-> 1]
    ELSE IF other.IsValid # 0 THEN other ELSE box

\* ---------------------------------------------------------- semantics
\* Semantics::CellSize is 2 * HalfCellUnits, so that half a cell is a whole number.
HalfCellUnits == 2
CellSize == 2 * HalfCellUnits
HalfCellSize == CellSize \div 2
CellExtent == <<HalfCellSize, HalfCellSize, HalfCellSize>>

\* FMath::RoundToInt32(n / d) for d > 0: floor(n / d + 0.5).
RoundDiv(n, d) == (2 * n + d) \div (2 * d)
\* RoundVecToInt(vector / d)
RoundVecToInt(vector, d) ==
    <<RoundDiv(vector[1], d), RoundDiv(vector[2], d), RoundDiv(vector[3], d)>>

\* --------------------------------------------------------------- Bounds
MakeSphere(origin, radius) ==
    [Origin |-> origin, Type |-> "Sphere", SphereRadius |-> radius, BoxExtent |-> ZeroVector]
MakeBox(origin, box_extent) ==
    [Origin |-> origin, Type |-> "Box", SphereRadius |-> 0, BoxExtent |-> box_extent]
\* Bounds::GetRadius, squared (the box radius is the length of its extent).
GetRadiusSquared(bounds) ==
    IF bounds.Type = "Box" THEN SizeSquared(bounds.BoxExtent)
    ELSE bounds.SphereRadius * bounds.SphereRadius

\* --------------------------------------------------------- TSpatialGrid
Element(cell, bounds, data) == [Cell |-> cell, Bounds |-> bounds, Data |-> data]
\* Cell(): a value-initialized cell; nothing in the grid assigns Cell::Bounds.
NewCell == [Elements |-> {}, Bounds |-> ZeroBox]

\* TSpatialGrid(InOrigin); box is the content of the member Bounds, which no
\* constructor initializes.
NewGrid(InOrigin, box) ==
    [Origin |-> InOrigin, Elements |-> EmptySlotMap, Cells |-> <<>>, Bounds |-> box]

LocationToCoordinates(g, world_location) ==
    RoundVecToInt(VSub(world_location, g.Origin), CellSize)

CellCenter(g, Coords) == VAdd(g.Origin, VScale(Coords, CellSize))

NumCells(g) == Cardinality(DOMAIN g.Cells)

\* Cells with the entry for coords set to cell (added when absent).
PutCell(cells, coords, cell) ==
    [c \in DOMAIN cells \cup {coords} |-> IF c = coords THEN cell ELSE cells[c]]

\* The box FindOrAddCell adds to the envelope for the cell at coords.
CellBox(g, coords) ==
    FBox(VSub(CellCenter(g, coords), CellExtent), VAdd(CellCenter(g, coords), CellExtent))

\* Mutant of FindOrAddCell: the envelope is left alone.
FindOrAddCellKeepsEnvelope(g, coords) ==
    IF coords \in DOMAIN g.Cells
    THEN g
    ELSE [g EXCEPT !.Cells = PutCell(g.Cells, coords, NewCell)]

\* TSpatialGrid::FindOrAddCell: the grid after try_emplace and the envelope update.
FindOrAddCell(g, coords) ==
    IF coords \in DOMAIN g.Cells
    THEN g
    ELSE LET cell_origin == CellCenter(g, coords) IN
         [g EXCEPT !.Cells = PutCell(g.Cells, coords, NewCell),
                   !.Bounds = BoxPlus(g.Bounds, FBox(VSub(cell_origin, CellExtent),
                                                     VAdd(cell_origin, CellExtent)))]

\* Mutant of AddElement: the radius is not checked.
AddElementUnchecked(g, bounds, data) ==
    LET coords == LocationToCoordinates(g, bounds.Origin)
        r == Insert(g.Elements, Element(coords, bounds, data))
    IN IF r.fault # "none"
       THEN [grid |-> g, id |-> r.id, fault |-> r.fault]
       ELSE LET g1 == FindOrAddCell([g EXCEPT !.Elements = r.map], coords)
                cell == g1.Cells[coords]
            IN [grid |-> [g1 EXCEPT !.Cells[coords] =
                             [cell EXCEPT !.Elements = cell.Elements \cup {r.id}]],
                id |-> r.id, fault |-> "none"]

\* TSpatialGrid::AddElement
AddElement(g, bounds, data) ==
    IF ~(GetRadiusSquared(bounds) < HalfCellSize * HalfCellSize)
    THEN [grid |-> g, id |-> DefaultElementId, fault |-> "check"]
    ELSE LET coords == LocationToCoordinates(g, bounds.Origin)
             r == Insert(g.Elements, Element(coords, bounds, data))
         IN IF r.fault # "none"
            THEN [grid |-> g, id |-> r.id, fault |-> r.fault]
            ELSE LET g1 == FindOrAddCell([g EXCEPT !.Elements = r.map], coords)
                     cell == g1.Cells[coords]
                 IN [grid |-> [g1 EXCEPT !.Cells[coords] =
                                  [cell EXCEPT !.Elements = cell.Elements \cup {r.id}]],
                     id |-> r.id, fault |-> "none"]

\* Mutant of RemoveElement: the id stays in the set of its cell.
RemoveElementKeepsId(g, id) ==
    LET r == Remove(g.Elements, id) IN
    IF r.fault # "none" \/ r.ret = NullOpt
    THEN [grid |-> g, fault |-> r.fault]
    ELSE [grid |-> [g EXCEPT !.Elements = r.map], fault |-> "none"]

\* Mutant of RemoveElement: a cell that becomes empty is erased.
RemoveElementErasesCell(g, id) ==
    LET r == Remove(g.Elements, id) IN
    IF r.fault # "none" \/ r.ret = NullOpt
    THEN [grid |-> g, fault |-> r.fault]
    ELSE LET g1 == [g EXCEPT !.Elements = r.map]
             cells == [c \in DOMAIN g1.Cells |->
                          [g1.Cells[c] EXCEPT !.Elements = @ \ {id}]]
         IN [grid |-> [g1 EXCEPT !.Cells =
                          [c \in {d \in DOMAIN cells : cells[d].Elements # {}} |-> cells[c]]],
             fault |-> "none"]

\* TSpatialGrid::RemoveElement
RemoveElement(g, id) ==
    LET r == Remove(g.Elements, id) IN
    IF r.fault # "none"
    THEN [grid |-> g, fault |-> r.fault]
    ELSE IF r.ret = NullOpt
    THEN [grid |-> g, fault |-> "none"]
    ELSE LET element == r.ret[1]
             g1 == [g EXCEPT !.Elements = r.map]
         IN IF element.Cell \in DOMAIN g1.Cells
            THEN [grid |-> [g1 EXCEPT !.Cells[element.Cell].Elements = @ \ {id}],
                  fault |-> "none"]
            ELSE [grid |-> g1, fault |-> "none"]

\* TSpatialGrid::GetElement
GetElement(g, id) == Get(g.Elements, id)

\* Mutant of ClearEmptyCells: every cell is erased.
ClearAllCells(g) == [g EXCEPT !.Cells = <<>>]

\* TSpatialGrid::ClearEmptyCells
ClearEmptyCells(g) ==
    [g EXCEPT !.Cells = [c \in {d \in DOMAIN g.Cells : g.Cells[d].Elements # {}} |-> g.Cells[c]]]

\* TSpatialGrid::UpdateElementLocation from the lock on: element is the
\* pointer the preceding Elements.Get(id) returned, as a dense index.  A
\* failed check() aborts after the origin was written.
UpdateLocked(g, id, element, new_location) ==
    LET old == At(g.Elements.Dense, element).second
        g1 == [g EXCEPT !.Elements.Dense[element + 1].second.Bounds.Origin = new_location]
        new_coords == LocationToCoordinates(g, new_location)
    IN IF new_coords # old.Cell
       THEN IF old.Cell \notin DOMAIN g1.Cells
            THEN [grid |-> g1, fault |-> "check"]
            ELSE LET g2 == [g1 EXCEPT !.Cells[old.Cell].Elements = @ \ {id}]
                     g3 == FindOrAddCell(g2, new_coords)
                     g4 == [g3 EXCEPT !.Cells[new_coords].Elements = @ \cup {id}]
                 IN [grid |-> [g4 EXCEPT !.Elements.Dense[element + 1].second.Cell = new_coords],
                     fault |-> "none"]
       ELSE [grid |-> g1, fault |-> "none"]

\* TSpatialGrid::UpdateElementLocation run without interruption.  Writing
\* through a pointer past the end of Dense is undefined behaviour ("ub").
UpdateElementLocation(g, id, new_location) ==
    LET element == Get(g.Elements, id) IN
    IF element = NullPtr
    THEN [grid |-> g, fault |-> "none"]
    ELSE IF ~Dereferenceable(g.Elements, element)
    THEN [grid |-> g, fault |-> "ub"]
    ELSE UpdateLocked(g, id, element, new_location)

\* --------------------------------------------------------- sphere query
\* CellRange(InStep).ForEach: the offsets of the cube of half-width |InStep|.
Abs(x) == IF x < 0 THEN -x ELSE x
CellRangeOffsets(InStep) ==
    {<<x, y, z>> : x \in (-Abs(InStep))..Abs(InStep), y \in (-Abs(InStep))..Abs(InStep),
                   z \in (-Abs(InStep))..Abs(InStep)}
\* CellRange::Count
CellRangeCount(InStep) ==
    ((Abs(InStep) * 2) + 1) * ((Abs(InStep) * 2) + 1) * ((Abs(InStep) * 2) + 1)

\* FVector::DistSquared
DistSquared(a, b) == SizeSquared(VSub(a, b))
\* FBox::GetClosestPointTo: the point clamped to the box, axis by axis.
Clamp(x, lo, hi) == IF x < lo THEN lo ELSE IF x > hi THEN hi ELSE x
GetClosestPointTo(box, point) ==
    <<Clamp(point[1], box.Min[1], box.Max[1]), Clamp(point[2], box.Min[2], box.Max[2]),
      Clamp(point[3], box.Min[3], box.Max[3])>>
\* BoxIntersectsSphereRadiusSq
BoxIntersectsSphereRadiusSq(Box, SphereOrigin, RadiusSq) ==
    DistSquared(SphereOrigin, GetClosestPointTo(Box, SphereOrigin)) <= RadiusSq
\* BoxIntersectsSphere(BoxOrigin, BoxExtent, SphereOrigin, SphereRadius)
BoxIntersectsSphere(BoxOrigin, BoxExtent, SphereOrigin, SphereRadius) ==
    BoxIntersectsSphereRadiusSq(FBox(VSub(BoxOrigin, BoxExtent), VAdd(BoxOrigin, BoxExtent)),
                                SphereOrigin, SphereRadius * SphereRadius)
\* Bounds::OverlapsSphere
OverlapsSphere(bounds, sphere_origin, sphere_radius) ==
    IF bounds.Type = "Box"
    THEN BoxIntersectsSphere(bounds.Origin, bounds.BoxExtent, sphere_origin, sphere_radius)
    ELSE DistSquared(sphere_origin, bounds.Origin)
             <= (bounds.SphereRadius + sphere_radius) * (bounds.SphereRadius + sphere_radius)

\* The first fault among the results S of the calls a loop makes.
FirstFault(S) ==
    IF \E r \in S : r.fault # "none"
    THEN CHOOSE f \in {r.fault : r \in S} : f # "none"
    ELSE "none"

\* Cell::ForEachElement: the (id, element) pairs func is called with, through
\* TSlotMap::ApplyAt, for the ids of the cell.
ForEachElement(g, cell) ==
    LET applied == {ApplyAt(g.Elements, id) : id \in cell.Elements} IN
    [visits |-> UNION {{r.visits[k] : k \in 1..Len(r.visits)} : r \in applied},
     fault |-> FirstFault(applied)]

\* The ids a cell hands to the visitor of a query: every visited element
\* (test = FALSE, the inner cells) or the visited elements that pass
\* scan_element (test = TRUE).
EmitCell(g, cell, Origin, radius, test) ==
    LET each == ForEachElement(g, cell) IN
    [emitted |-> {p.first : p \in {q \in each.visits :
                      ~test \/ OverlapsSphere(q.second.Bounds, Origin, radius)}},
     fault |-> each.fault]

\* What the loop emits while it is at the cell with coordinates c: calls
\* holds one pair per call of func (the ids of a cell are a set).
InCell(c, r) ==
    [emitted |-> r.emitted, fault |-> r.fault, calls |-> {<<c, id>> : id \in r.emitted}]

\* What a loop over cells emits in all.
Collect(S) ==
    [emitted |-> UNION {r.emitted : r \in S}, fault |-> FirstFault(S),
     calls |-> UNION {r.calls : r \in S}]
NothingEmitted == [emitted |-> {}, fault |-> "none"]

\* scan_cell: the cell's elements are scanned when its box meets the sphere.
ScanCell(g, cell, Origin, radius) ==
    IF BoxIntersectsSphereRadiusSq(cell.Bounds, Origin, radius * radius)
    THEN EmitCell(g, cell, Origin, radius, TRUE)
    ELSE NothingEmitted

\* grid.ForEachCell(scan_cell)
ForEachCellScan(g, Origin, radius) ==
    Collect({InCell(c, ScanCell(g, g.Cells[c], Origin, radius)) : c \in DOMAIN g.Cells})

\* farthest.SizeSquared() of BuildCached for the cell at index.
FarthestCoord(index_k) ==
    IF 0 < index_k * CellSize THEN index_k * CellSize + HalfCellSize
    ELSE index_k * CellSize - HalfCellSize
FarthestSizeSquared(index) ==
    SizeSquared(<<FarthestCoord(index[1]), FarthestCoord(index[2]), FarthestCoord(index[3])>>)

\* farthest_sq <= Square(Radius - HalfDiagonal), HalfDiagonal being
\* HalfCellSize * sqrt(3), decided in whole numbers:
\*     2 * Radius * HalfCellSize * sqrt(3) <= Radius^2 + 3 * HalfCellSize^2 - farthest_sq.
\* The two sides are equal only when Radius = 0 and farthest_sq = 3 * HalfCellSize^2;
\* double arithmetic then rounds Square(HalfCellSize * sqrt(3)) to 3 * HalfCellSize^2
\* or just below it, depending on the cell size: tie_inner is that outcome.
WithinEffectiveRadius(farthest_sq, Radius, tie_inner) ==
    LET rest == Radius * Radius + 3 * HalfCellSize * HalfCellSize - farthest_sq
        twice_sq == 12 * Radius * Radius * HalfCellSize * HalfCellSize
    IN IF Radius = 0 THEN (IF rest = 0 THEN tie_inner ELSE rest > 0)
       ELSE IF Radius > 0 THEN rest >= 0 /\ twice_sq <= rest * rest
       ELSE rest >= 0 \/ twice_sq >= rest * rest

\* BuildCached with the test for the edge list made on every offset, the
\* inner ones included.
BuildCachedWithoutElse(Radius, tie_inner) ==
    LET bounds == RoundDiv(Radius, CellSize) + 1
        range == CellRangeOffsets(bounds)
        inner == {index \in range :
                     WithinEffectiveRadius(FarthestSizeSquared(index), Radius, tie_inner)}
        edge == {index \in range :
                    Abs(index[1]) < bounds /\ Abs(index[2]) < bounds /\ Abs(index[3]) < bounds}
    IN [Radius |-> Radius, InnerCells |-> inner, EdgeCells |-> edge,
        OuterCells |-> (range \ inner) \ edge]

\* TSphereQueryBuilder::BuildCached
BuildCached(Radius, tie_inner) ==
    LET bounds == RoundDiv(Radius, CellSize) + 1
        range == CellRangeOffsets(bounds)
        inner == {index \in range :
                     WithinEffectiveRadius(FarthestSizeSquared(index), Radius, tie_inner)}
        edge == {index \in range \ inner :
                    Abs(index[1]) < bounds /\ Abs(index[2]) < bounds /\ Abs(index[3]) < bounds}
    IN [Radius |-> Radius, InnerCells |-> inner, EdgeCells |-> edge,
        OuterCells |-> (range \ inner) \ edge]

\* TSphereQuery<Cached>::CellCount
CellCount(query) ==
    Cardinality(query.InnerCells) + Cardinality(query.EdgeCells) + Cardinality(query.OuterCells)

\* TQueryIter::CachedEach past the short-circuit: the loops over the inner,
\* edge and outer lists.
CachedLists(g, query, Origin) ==
    LET radius == query.Radius
        offset == LocationToCoordinates(g, Origin)
        Present(cells) == {VAdd(c, offset) : c \in cells} \cap DOMAIN g.Cells
    IN Collect(
           {InCell(c, EmitCell(g, g.Cells[c], Origin, radius, FALSE)) :
                c \in {d \in Present(query.InnerCells) : g.Cells[d].Elements # {}}}
           \cup {InCell(c, EmitCell(g, g.Cells[c], Origin, radius, TRUE)) :
                     c \in Present(query.EdgeCells)}
           \cup {InCell(c, ScanCell(g, g.Cells[c], Origin, radius)) :
                     c \in Present(query.OuterCells)})

\* TQueryIter::CachedEach
CachedEach(g, query, Origin) ==
    IF CellCount(query) > NumCells(g)
    THEN ForEachCellScan(g, Origin, query.Radius)
    ELSE CachedLists(g, query, Origin)

\* TQueryIter::UncachedEach past the short-circuit: the loop over the cube
\* of offsets.
UncachedCube(g, radius, Origin) ==
    LET InStep == RoundDiv(radius, CellSize) + 1
        offset == LocationToCoordinates(g, Origin)
    IN Collect({InCell(c, ScanCell(g, g.Cells[c], Origin, radius)) :
                   c \in {VAdd(d, offset) : d \in CellRangeOffsets(InStep)}
                             \cap DOMAIN g.Cells})

\* TQueryIter::UncachedEach
UncachedEach(g, radius, Origin) ==
    IF CellRangeCount(RoundDiv(radius, CellSize) + 1) > NumCells(g)
    THEN ForEachCellScan(g, Origin, radius)
    ELSE UncachedCube(g, radius, Origin)

\* ------------------------------------------------------------ line trace
\* UE_BIG_NUMBER, the reciprocal FVector::Reciprocal gives a zero component:
\* a number above every time value a finite slab gives in the model.
BigNumber == 1000
\* TNumericLimits<double>::Max(); Lowest() is its negation.
DblMax == 1000000000
INVALID_LOCATION == <<DblMax, DblMax, DblMax>>

VMul(a, b) == <<a[1] * b[1], a[2] * b[2], a[3] * b[3]>>
VMax(a, b) == <<Max2(a[1], b[1]), Max2(a[2], b[2]), Max2(a[3], b[3])>>
Sgn(x) == IF x > 0 THEN 1 ELSE IF x < 0 THEN -1 ELSE 0
\* FVector::GetSafeNormal of a vector along one axis.
GetSafeNormal(v) == <<Sgn(v[1]), Sgn(v[2]), Sgn(v[3])>>
\* FVector::Reciprocal of a vector whose components are -1, 0 or 1.
ReciprocalOf(x) == IF x = 0 THEN BigNumber ELSE x
Reciprocal(v) == <<ReciprocalOf(v[1]), ReciprocalOf(v[2]), ReciprocalOf(v[3])>>
\* FMath::Sqrt of a whole number that is a square.
Sqrt(n) == CHOOSE k \in 0..n : k * k <= n /\ n < (k + 1) * (k + 1)
\* FMath::CeilToInt(n / d) for n >= 0 and d > 0.
CeilDiv(n, d) == (n + d - 1) \div d

\* TLineTrace(start, end)
TLineTrace(start, end) ==
    LET dir == GetSafeNormal(VSub(end, start))
        inv_dir == Reciprocal(dir)
    IN [Start |-> start, End |-> end, Dir |-> dir, InvDir |-> inv_dir,
        Delta |-> <<Abs(CellSize * inv_dir[1]), Abs(CellSize * inv_dir[2]),
                    Abs(CellSize * inv_dir[3])>>,
        Step |-> <<IF dir[1] > 0 THEN 1 ELSE -1, IF dir[2] > 0 THEN 1 ELSE -1,
                   IF dir[3] > 0 THEN 1 ELSE -1>>]

\* FBox::IsInside(point): strictly inside.
IsInside(box, point) ==
    \A k \in 1..3 : point[k] > box.Min[k] /\ point[k] < box.Max[k]

\* The slab loop of LineIntersectsBox and LineBoxHitPoint over the axes from
\* Axis on: [hit |-> whether the loop ran to its end, T_Entry |-> ...].
RECURSIVE Slabs(_, _, _, _, _, _)
Slabs(Box, Start, InvDir, Axis, T_Entry, T_Exit) ==
    IF Axis > 3 THEN [hit |-> TRUE, T_Entry |-> T_Entry]
    ELSE LET T1 == (Box.Min[Axis] - Start[Axis]) * InvDir[Axis]
             T2 == (Box.Max[Axis] - Start[Axis]) * InvDir[Axis]
         IN CHOOSE after \in
                {IF entry > exit THEN [hit |-> FALSE, T_Entry |-> entry]
                 ELSE Slabs(Box, Start, InvDir, Axis + 1, entry, exit) :
                     entry \in {Max2(T_Entry, Min2(T1, T2))},
                     exit \in {Min2(T_Exit, Max2(T1, T2))}} : TRUE

\* LineIntersectsBox
LineIntersectsBox(Box, Start, InvDir) == Slabs(Box, Start, InvDir, 1, -DblMax, DblMax).hit

\* LineBoxHitPoint without the test of T_Entry against the segment: the hit
\* point of the whole line.
LineBoxHitPointOfLine(Box, Start, End, Dir, InvDir) ==
    IF IsInside(Box, Start) THEN Some(Start)
    ELSE LET slabs == Slabs(Box, Start, InvDir, 1, -DblMax, DblMax) IN
         IF ~slabs.hit THEN NullOpt
         ELSE Some(VAdd(Start, VScale(Dir, slabs.T_Entry)))

\* LineBoxHitPoint: the hit point as an optional.
LineBoxHitPoint(Box, Start, End, Dir, InvDir) ==
    IF IsInside(Box, Start) THEN Some(Start)
    ELSE LET slabs == Slabs(Box, Start, InvDir, 1, -DblMax, DblMax) IN
         IF ~slabs.hit THEN NullOpt
         ELSE IF slabs.T_Entry < 0 \/ slabs.T_Entry * slabs.T_Entry > DistSquared(Start, End)
         THEN NullOpt
         ELSE Some(VAdd(Start, VScale(Dir, slabs.T_Entry)))

Dot(a, b) == a[1] * b[1] + a[2] * b[2] + a[3] * b[3]

\* LineSphereHitPoint: the hit point as an optional.
LineSphereHitPoint(start, end_, dir, sphere_origin, sphere_radius) ==
    LET start_to_center == VSub(start, sphere_origin)
        radius_squared == sphere_radius * sphere_radius
        v == Dot(dir, VSub(sphere_origin, start))
        discriminant == radius_squared - (Dot(start_to_center, start_to_center) - (v * v))
    IN IF SizeSquared(start_to_center) < radius_squared THEN Some(start)
       ELSE IF discriminant < 0 THEN NullOpt
       ELSE LET time == v - Sqrt(discriminant) IN
            IF time < 0 \/ time * time > DistSquared(start, end_) THEN NullOpt
            ELSE Some(VAdd(start, VScale(dir, time)))

\* Bounds::GetBox
GetBox(bounds) == FBox(VSub(bounds.Origin, bounds.BoxExtent), VAdd(bounds.Origin, bounds.BoxExtent))

\* Bounds::LineHitPoint: the hit point as an optional.
LineHitPoint(bounds, start, end, dir, inv_dir) ==
    IF bounds.Type = "Box" THEN LineBoxHitPoint(GetBox(bounds), start, end, dir, inv_dir)
    ELSE LineSphereHitPoint(start, end, dir, bounds.Origin, bounds.SphereRadius)

\* QueryResult {}
NoQueryResult ==
    [BlockingHit |-> FALSE, Location |-> INVALID_LOCATION, ImpactPoint |-> INVALID_LOCATION,
     ElementId |-> DefaultElementId]

\* TSpatialGrid::IsCellWithinBounds
IsCellWithinBounds(g, Coords) == IsInside(g.Bounds, CellCenter(g, Coords))

\* TLineTrace::CalculateMaxSteps
CalculateMaxSteps(trace, hit_point) ==
    LET delta == VSub(trace.End, hit_point) IN
    CeilDiv(Abs(delta[1]), CellSize) + CeilDiv(Abs(delta[2]), CellSize)
        + CeilDiv(Abs(delta[3]), CellSize) + 1

\* Progress with the tests written with <=: of equal times the axis that
\* comes first is crossed.
ProgressFirstOfEqual(trace, current_cell, t_max) ==
    IF t_max[1] <= t_max[2] /\ t_max[1] <= t_max[3]
    THEN [current_cell |-> [current_cell EXCEPT ![1] = @ + trace.Step[1]],
          t_max |-> [t_max EXCEPT ![1] = @ + trace.Delta[1]]]
    ELSE IF t_max[2] <= t_max[3]
    THEN [current_cell |-> [current_cell EXCEPT ![2] = @ + trace.Step[2]],
          t_max |-> [t_max EXCEPT ![2] = @ + trace.Delta[2]]]
    ELSE [current_cell |-> [current_cell EXCEPT ![3] = @ + trace.Step[3]],
          t_max |-> [t_max EXCEPT ![3] = @ + trace.Delta[3]]]

\* TLineTrace::Progress
Progress(trace, current_cell, t_max) ==
    IF t_max[1] < t_max[2] /\ t_max[1] < t_max[3]
    THEN [current_cell |-> [current_cell EXCEPT ![1] = @ + trace.Step[1]],
          t_max |-> [t_max EXCEPT ![1] = @ + trace.Delta[1]]]
    ELSE IF t_max[2] < t_max[3]
    THEN [current_cell |-> [current_cell EXCEPT ![2] = @ + trace.Step[2]],
          t_max |-> [t_max EXCEPT ![2] = @ + trace.Delta[2]]]
    ELSE [current_cell |-> [current_cell EXCEPT ![3] = @ + trace.Step[3]],
          t_max |-> [t_max EXCEPT ![3] = @ + trace.Delta[3]]]

\* TLineTrace::CheckClosest.  CellRange(1).ForEach(offset, ...) hands over
\* index + offset, and the callback adds offset once more.  Among the hits
\* of one sweep the nearest stays (the first of equally near ones in the
\* iteration order of the hash containers, which the model leaves open).
CheckClosest(g, trace, offset, checked_cells, closest) ==
    LET located == [closest EXCEPT !.Location = trace.End]
        swept == {VAdd(VAdd(index, offset), offset) : index \in CellRangeOffsets(1)}
                     \ checked_cells
        scanned == {c \in swept \cap DOMAIN g.Cells :
                       /\ g.Cells[c].Elements # {}
                       /\ LineIntersectsBox(g.Cells[c].Bounds, trace.Start, trace.InvDir)}
        each == {ForEachElement(g, g.Cells[c]) : c \in scanned}
        visits == UNION {r.visits : r \in each}
        hits == {[id |-> p.first,
                  hit_loc |-> LineHitPoint(p.second.Bounds, trace.Start, trace.End,
                                           trace.Dir, trace.InvDir)] :
                     p \in {q \in visits :
                                LineHitPoint(q.second.Bounds, trace.Start, trace.End,
                                             trace.Dir, trace.InvDir) # NullOpt}}
        Near(h) == DistSquared(trace.Start, h.hit_loc[1])
    IN [checked_cells |-> checked_cells \cup swept,
        swept |-> swept,
        fault |-> FirstFault(each),
        closest |->
            IF hits = {} THEN located
            ELSE LET best == CHOOSE h \in hits : \A k \in hits : Near(h) <= Near(k) IN
                 IF ~located.BlockingHit
                        \/ Near(best) < DistSquared(trace.Start, located.ImpactPoint)
                 THEN [BlockingHit |-> TRUE, Location |-> best.hit_loc[1],
                       ImpactPoint |-> best.hit_loc[1], ElementId |-> best.id]
                 ELSE located]

\* The loop of TLineTrace::Single from step steps on.  sweeps lists, per
\* call of CheckClosest, the current cell and the coordinates it examined.
\* (The sets of one element bind the values of one pass of the loop.)
RECURSIVE SingleLoop(_, _, _, _, _, _, _, _, _)
SingleLoop(g, trace, current_cell, t_max, checked_cells, result, steps, max_steps, sweeps) ==
    IF ~(steps < max_steps) THEN [result |-> result, fault |-> "none", sweeps |-> sweeps]
    ELSE CHOOSE after \in
             {LET swept == Append(sweeps, [at |-> current_cell, examined |-> check.swept]) IN
              IF check.fault # "none"
              THEN [result |-> check.closest, fault |-> check.fault, sweeps |-> swept]
              ELSE IF \/ check.closest.BlockingHit
                      \/ current_cell = LocationToCoordinates(g, trace.End)
                      \/ ~IsCellWithinBounds(g, current_cell)
              THEN [result |-> check.closest, fault |-> "none", sweeps |-> swept]
              ELSE SingleLoop(g, trace, next.current_cell, next.t_max, check.checked_cells,
                              check.closest, steps + 1, max_steps, swept) :
                  check \in {CheckClosest(g, trace, current_cell, checked_cells, result)},
                  next \in {Progress(trace, current_cell, t_max)}} : TRUE

\* TLineTrace::Single
Single(g, trace) ==
    LET hit == LineBoxHitPoint(g.Bounds, trace.Start, trace.End, trace.Dir, trace.InvDir) IN
    IF hit = NullOpt THEN [result |-> NoQueryResult, fault |-> "none", sweeps |-> <<>>]
    ELSE LET hit_point == hit[1]
             current_cell == LocationToCoordinates(g, hit_point)
             start_cell_origin == CellCenter(g, current_cell)
             t1 == VMul(VSub(VSub(start_cell_origin, CellExtent), hit_point), trace.InvDir)
             t2 == VMul(VSub(VAdd(start_cell_origin, CellExtent), hit_point), trace.InvDir)
             t_max == VMax(t1, t2)
             first == IF hit_point # trace.Start
                      THEN Progress(trace, current_cell, t_max)
                      ELSE [current_cell |-> current_cell, t_max |-> t_max]
         IN SingleLoop(g, trace, first.current_cell, first.t_max, {}, NoQueryResult, 0,
                       CalculateMaxSteps(trace, hit_point), <<>>)

\* TLineTrace::CheckAll.  emitted holds one record per call of func: the id
\* and the hit point handed over and the cell the element was reached through
\* (a cell is scanned once in a traversal, and its ids are a set).
CheckAll(g, trace, offset, checked_cells) ==
    LET swept == {VAdd(index, offset) : index \in CellRangeOffsets(1)} \ checked_cells
        scanned == {c \in swept \cap DOMAIN g.Cells :
                       /\ g.Cells[c].Elements # {}
                       /\ LineIntersectsBox(g.Cells[c].Bounds, trace.Start, trace.InvDir)}
        each == {ForEachElement(g, g.Cells[c]) : c \in scanned}
    IN [checked_cells |-> checked_cells \cup swept,
        swept |-> swept,
        fault |-> FirstFault(each),
        emitted |->
            UNION {{[id |-> p.first, cell |-> c,
                     hit_loc |-> LineHitPoint(p.second.Bounds, trace.Start, trace.End,
                                              trace.Dir, trace.InvDir)[1]] :
                        p \in {q \in ForEachElement(g, g.Cells[c]).visits :
                                   LineHitPoint(q.second.Bounds, trace.Start, trace.End,
                                                trace.Dir, trace.InvDir) # NullOpt}} :
                       c \in scanned}]

\* The loop of TLineTrace::Multi from step step on.
RECURSIVE MultiLoop(_, _, _, _, _, _, _, _, _)
MultiLoop(g, trace, current_cell, t_max, checked_cells, emitted, step, max_steps, sweeps) ==
    IF ~(step < max_steps) THEN [emitted |-> emitted, fault |-> "none", sweeps |-> sweeps]
    ELSE CHOOSE after \in
             {LET swept == Append(sweeps, [at |-> current_cell, examined |-> check.swept])
                  all == emitted \cup check.emitted
              IN
              IF check.fault # "none"
              THEN [emitted |-> all, fault |-> check.fault, sweeps |-> swept]
              ELSE IF \/ current_cell = LocationToCoordinates(g, trace.End)
                      \/ ~IsCellWithinBounds(g, current_cell)
              THEN [emitted |-> all, fault |-> "none", sweeps |-> swept]
              ELSE MultiLoop(g, trace, next.current_cell, next.t_max, check.checked_cells,
                             all, step + 1, max_steps, swept) :
                  check \in {CheckAll(g, trace, current_cell, checked_cells)},
                  next \in {Progress(trace, current_cell, t_max)}} : TRUE

\* TLineTrace::Multi
Multi(g, trace) ==
    LET hit == LineBoxHitPoint(g.Bounds, trace.Start, trace.End, trace.Dir, trace.InvDir) IN
    IF hit = NullOpt THEN [emitted |-> {}, fault |-> "none", sweeps |-> <<>>]
    ELSE LET hit_point == hit[1]
             current_cell == LocationToCoordinates(g, hit_point)
             start_cell_origin == CellCenter(g, current_cell)
             t1 == VMul(VSub(VSub(start_cell_origin, CellExtent), hit_point), trace.InvDir)
             t2 == VMul(VSub(VAdd(start_cell_origin, CellExtent), hit_point), trace.InvDir)
             t_max == VMax(t1, t2)
             first == IF hit_point # trace.Start
                      THEN Progress(trace, current_cell, t_max)
                      ELSE [current_cell |-> current_cell, t_max |-> t_max]
         IN MultiLoop(g, trace, first.current_cell, first.t_max, {}, {}, 0,
                      CalculateMaxSteps(trace, hit_point), <<>>)

\* --------------------------------------------------------------- state
VARIABLES
    Map,        \* a TSlotMap<V> driven directly by Insert / Remove / Get / ApplyAt
    Grid,       \* a TSpatialGrid: Origin, Elements (its slot map), Cells, Bounds
    issued,     \* ids Insert (AddElement) has returned
    stored,     \* id -> payload of the latest Insert that returned id, while no Remove(id) succeeded since
    call,       \* the latest call and what it returned
    fault,      \* "none" until a call aborts the program or runs into undefined behaviour
    held,       \* coordinates of the cells that have held an element at some time
    pending     \* the UpdateElementLocation call of a second thread between its steps

vars == <<Map, Grid, issued, stored, call, fault, held, pending>>

\* Payloads handed to TSlotMap<V>::Insert.
Payloads == {"a", "b"}
\* Payloads (ElementData) handed to TSpatialGrid::AddElement.
Datas == {"data"}
Ids == {ElementId(i, v) : i \in 0..MaxSlots, v \in 0..MaxVersion}

\* The grids a run starts from: TSpatialGrid() and TSpatialGrid(InOrigin).  No
\* constructor initializes the member Bounds: it holds zeroes when the object
\* was value-initialized and anything otherwise (here: a valid empty box).
InitialGrids == {NewGrid(ZeroVector, ZeroBox),
                 NewGrid(<<1, 0, 0>>, FBox(ZeroVector, ZeroVector))}
\* World locations of elements: two in one cell, one on a half-cell line of
\* another cell.
Locations == {ZeroVector, <<1, 0, 0>>, <<HalfCellSize, CellSize, 0>>}
\* Shapes of elements: a small sphere, and a box whose radius (the length of
\* its extent) is HalfCellSize, which AddElement rejects.
Shapes(origin) == {MakeSphere(origin, 1), MakeBox(origin, <<HalfCellSize, 0, 0>>)}
BoundsInputs == UNION {Shapes(origin) : origin \in Locations}

\* No UpdateElementLocation call is between its steps.
NoPending == [pc |-> "idle"]
\* Coordinates of the cells of g whose id set is not empty.
Occupied(g) == {c \in DOMAIN g.Cells : g.Cells[c].Elements # {}}

Put(f, k, v) == [i \in DOMAIN f \cup {k} |-> IF i = k THEN v ELSE f[i]]
Drop(f, k) == [i \in DOMAIN f \ {k} |-> f[i]]

SlotInit ==
    /\ Map = EmptySlotMap
    /\ Grid = NewGrid(ZeroVector, ZeroBox)
    /\ issued = {}
    /\ stored = <<>>
    /\ call = [op |-> "none"]
    /\ fault = "none"
    /\ held = {}
    /\ pending = NoPending

MapInsert(value) ==
    /\ fault = "none"
    /\ Len(Map.Dense) < MaxDense
    /\ Len(Map.Slots) < MaxSlots
    /\ LET r == Insert(Map, value) IN
       /\ Map' = r.map
       /\ fault' = r.fault
       /\ call' = [op |-> "Insert", value |-> value, id |-> r.id]
       /\ issued' = IF r.fault = "none" THEN issued \cup {r.id} ELSE issued
       /\ stored' = IF r.fault = "none" THEN Put(stored, r.id, value) ELSE stored
    /\ UNCHANGED <<Grid, held, pending>>

MapRemove(id) ==
    /\ fault = "none"
    /\ id.Index < Len(Map.Slots) => At(Map.Slots, id.Index).Version < MaxVersion
    /\ LET r == Remove(Map, id) IN
       /\ Map' = r.map
       /\ fault' = r.fault
       /\ call' = [op |-> "Remove", id |-> id, ret |-> r.ret]
       /\ stored' = IF r.ret # NullOpt THEN Drop(stored, id) ELSE stored
    /\ UNCHANGED <<Grid, issued, held, pending>>

MapGet(id) ==
    /\ fault = "none"
    /\ call' = [op |-> "Get", ret |-> Get(Map, id)]
    /\ UNCHANGED <<Map, Grid, issued, stored, fault, held, pending>>

MapContains(id) ==
    /\ fault = "none"
    /\ call' = [op |-> "Contains", ret |-> Contains(Map, id)]
    /\ UNCHANGED <<Map, Grid, issued, stored, fault, held, pending>>

MapApplyAt(id) ==
    /\ fault = "none"
    /\ LET r == ApplyAt(Map, id) IN
       /\ call' = [op |-> "ApplyAt", visits |-> r.visits]
       /\ fault' = r.fault
    /\ UNCHANGED <<Map, Grid, issued, stored, held, pending>>

SlotNext ==
    \/ \E value \in Payloads : MapInsert(value)
    \/ \E id \in Ids : MapRemove(id)
    \/ \E id \in Ids : MapGet(id)
    \/ \E id \in Ids : MapContains(id)
    \/ \E id \in Ids : MapApplyAt(id)

SlotSpec == SlotInit /\ [][SlotNext]_vars

\* ------------------------------------- the slot map up to index overflow
\* Insert and Remove of live ids, with few elements live, until the slot
\* vector is one longer than the index type can count.
CycleInsert(value) ==
    /\ fault = "none"
    /\ Len(Map.Slots) <= UIntMod
    /\ LET r == Insert(Map, value) IN
       /\ Map' = r.map
       /\ fault' = r.fault
       /\ call' = [op |-> "Insert", value |-> value, id |-> r.id]
    /\ UNCHANGED <<Grid, issued, stored, held, pending>>

CycleRemove(id) ==
    /\ fault = "none"
    /\ id.Index < Len(Map.Slots) => At(Map.Slots, id.Index).Version < MaxVersion
    /\ LET r == Remove(Map, id) IN
       /\ Map' = r.map
       /\ fault' = r.fault
       /\ call' = [op |-> "Remove", id |-> id, ret |-> r.ret]
    /\ UNCHANGED <<Grid, issued, stored, held, pending>>

\* One payload, and the ids of the oldest and of the newest dense record.
CyclePayloads == {"a"}
CycleIds == {Map.Dense[k].first : k \in {1, Len(Map.Dense)} \cap DOMAIN Map.Dense}

CycleNext ==
    \/ \E value \in CyclePayloads : CycleInsert(value)
    \/ \E id \in CycleIds : CycleRemove(id)

CycleSpec == SlotInit /\ [][CycleNext]_vars

\* ----------------------------------------------------------- the grid
Init ==
    /\ Map = EmptySlotMap
    /\ Grid \in InitialGrids
    /\ issued = {}
    /\ stored = <<>>
    /\ call = [op |-> "none"]
    /\ fault = "none"
    /\ held = {}
    /\ pending = NoPending

GridAddElement(bounds, data) ==
    /\ fault = "none"
    /\ Len(Grid.Elements.Dense) < MaxElements
    /\ Len(Grid.Elements.Slots) < MaxSlots
    /\ LET r == AddElement(Grid, bounds, data) IN
       /\ Grid' = r.grid
       /\ fault' = r.fault
       /\ call' = [op |-> "AddElement", id |-> r.id]
       /\ issued' = IF r.fault = "none" THEN issued \cup {r.id} ELSE issued
       /\ stored' = IF r.fault = "none" THEN Put(stored, r.id, data) ELSE stored
       /\ held' = held \cup Occupied(r.grid)
    /\ UNCHANGED <<Map, pending>>

GridRemoveElement(id) ==
    /\ fault = "none"
    /\ id.Index < Len(Grid.Elements.Slots) =>
           At(Grid.Elements.Slots, id.Index).Version < MaxVersion
    /\ LET r == RemoveElement(Grid, id) IN
       /\ Grid' = r.grid
       /\ fault' = r.fault
       /\ call' = [op |-> "RemoveElement",
                   removed |-> Len(r.grid.Elements.Dense) < Len(Grid.Elements.Dense)]
       /\ stored' = IF Len(r.grid.Elements.Dense) < Len(Grid.Elements.Dense)
                    THEN Drop(stored, id) ELSE stored
       /\ held' = held \cup Occupied(r.grid)
    /\ UNCHANGED <<Map, issued, pending>>

GridUpdateElementLocation(id, new_location) ==
    /\ fault = "none"
    /\ LET r == UpdateElementLocation(Grid, id, new_location) IN
       /\ Grid' = r.grid
       /\ fault' = r.fault
       /\ call' = [op |-> "UpdateElementLocation", found |-> GetElement(Grid, id) # NullPtr]
       /\ held' = held \cup Occupied(r.grid)
    /\ UNCHANGED <<Map, issued, stored, pending>>

GridClearEmptyCells ==
    /\ fault = "none"
    /\ Grid' = ClearEmptyCells(Grid)
    /\ call' = [op |-> "ClearEmptyCells"]
    /\ UNCHANGED <<Map, issued, stored, fault, held, pending>>

Next ==
    \/ \E bounds \in BoundsInputs, data \in Datas : GridAddElement(bounds, data)
    \/ \E id \in Ids : GridRemoveElement(id)
    \/ \E id \in Ids, new_location \in Locations : GridUpdateElementLocation(id, new_location)
    \/ GridClearEmptyCells

Spec == Init /\ [][Next]_vars

\* ------------------------------------------- the grid under two threads
\* One thread runs AddElement, RemoveElement and ClearEmptyCells, each under
\* the grid mutex from its first access to its last.  Another thread runs
\* UpdateElementLocation, which calls Elements.Get(id) before it takes the
\* mutex: the call is two steps, and the first thread runs between them.
RaceInit ==
    /\ Map = EmptySlotMap
    /\ Grid = NewGrid(ZeroVector, ZeroBox)
    /\ issued = {}
    /\ stored = <<>>
    /\ call = [op |-> "none"]
    /\ fault = "none"
    /\ held = {}
    /\ pending = NoPending

\* AddElement by the first thread.  Dense.push_back may move the records to
\* new storage (when size() == capacity()), which leaves a pointer the other
\* thread holds dangling.
RaceAddElement(bounds, data) ==
    /\ fault = "none"
    /\ Len(Grid.Elements.Dense) < MaxElements
    /\ Len(Grid.Elements.Slots) < MaxSlots
    /\ LET r == AddElement(Grid, bounds, data) IN
       /\ Grid' = r.grid
       /\ fault' = r.fault
       /\ call' = [op |-> "AddElement", id |-> r.id]
       /\ issued' = IF r.fault = "none" THEN issued \cup {r.id} ELSE issued
       /\ stored' = IF r.fault = "none" THEN Put(stored, r.id, data) ELSE stored
       /\ held' = held \cup Occupied(r.grid)
       /\ IF pending.pc = "got" /\ r.fault = "none"
          THEN \E moved \in BOOLEAN :
                   pending' = [pending EXCEPT !.dangling = @ \/ moved]
          ELSE pending' = pending
    /\ UNCHANGED Map

\* RemoveElement by the first thread.
RaceRemoveElement(id) ==
    /\ fault = "none"
    /\ id.Index < Len(Grid.Elements.Slots) =>
           At(Grid.Elements.Slots, id.Index).Version < MaxVersion
    /\ LET r == RemoveElement(Grid, id) IN
       /\ Grid' = r.grid
       /\ fault' = r.fault
       /\ call' = [op |-> "RemoveElement",
                   removed |-> Len(r.grid.Elements.Dense) < Len(Grid.Elements.Dense)]
       /\ stored' = IF Len(r.grid.Elements.Dense) < Len(Grid.Elements.Dense)
                    THEN Drop(stored, id) ELSE stored
       /\ held' = held \cup Occupied(r.grid)
    /\ UNCHANGED <<Map, issued, pending>>

\* ClearEmptyCells by the first thread.
RaceClearEmptyCells ==
    /\ fault = "none"
    /\ Grid' = ClearEmptyCells(Grid)
    /\ call' = [op |-> "ClearEmptyCells"]
    /\ UNCHANGED <<Map, issued, stored, fault, held, pending>>

\* UpdateElementLocation, line 138: Elements.Get(id) without the mutex while
\* the first thread is outside its critical sections.  A null pointer ends
\* the call.
RaceUpdateGet(id, new_location) ==
    /\ fault = "none"
    /\ pending.pc = "idle"
    /\ LET element == Get(Grid.Elements, id) IN
       /\ pending' = IF element = NullPtr
                     THEN NoPending
                     ELSE [pc |-> "got", id |-> id, new_location |-> new_location,
                           element |-> element, dangling |-> FALSE]
       /\ call' = [op |-> "UpdateGet", found |-> element # NullPtr]
    /\ UNCHANGED <<Map, Grid, issued, stored, fault, held>>

\* UpdateElementLocation, line 138, while the first thread is inside the
\* critical section of an AddElement call, which writes Slots and Dense: the
\* unlocked read is a data race with those writes.
RaceUpdateGetInAddElement(id, bounds, data) ==
    /\ fault = "none"
    /\ pending.pc = "idle"
    /\ Len(Grid.Elements.Dense) < MaxElements
    /\ Len(Grid.Elements.Slots) < MaxSlots
    /\ LET r == AddElement(Grid, bounds, data) IN
       /\ r.fault = "none"
       /\ Grid' = r.grid
       /\ issued' = issued \cup {r.id}
       /\ stored' = Put(stored, r.id, data)
       /\ held' = held \cup Occupied(r.grid)
    /\ call' = [op |-> "UpdateGet", found |-> FALSE]
    /\ fault' = "ub"
    /\ UNCHANGED <<Map, pending>>

\* UpdateElementLocation, lines 140-156, with the pointer of line 138.  The
\* pointer is used after the records moved or after its record was popped:
\* undefined behaviour.
RaceUpdateLocked ==
    /\ fault = "none"
    /\ pending.pc = "got"
    /\ IF pending.dangling \/ ~Dereferenceable(Grid.Elements, pending.element)
       THEN /\ fault' = "ub"
            /\ UNCHANGED <<Grid, held>>
       ELSE LET r == UpdateLocked(Grid, pending.id, pending.element, pending.new_location) IN
            /\ Grid' = r.grid
            /\ fault' = r.fault
            /\ held' = held \cup Occupied(r.grid)
    /\ call' = [op |-> "UpdateLocked", id |-> pending.id,
                new_location |-> pending.new_location]
    /\ pending' = NoPending
    /\ UNCHANGED <<Map, issued, stored>>

RaceNext ==
    \/ \E bounds \in BoundsInputs, data \in Datas : RaceAddElement(bounds, data)
    \/ \E id \in Ids : RaceRemoveElement(id)
    \/ RaceClearEmptyCells
    \/ \E id \in Ids, new_location \in Locations : RaceUpdateGet(id, new_location)
    \/ \E id \in Ids, bounds \in BoundsInputs, data \in Datas :
           RaceUpdateGetInAddElement(id, bounds, data)
    \/ RaceUpdateLocked

RaceSpec == RaceInit /\ [][RaceNext]_vars

\* ------------------------------------------------ queries on a grid
\* The grids the queries run on are built by the calls of the grid itself.
\* (The grid a call starts from is bound as a value, h, so that it is computed once.)
Added(g, bounds) ==
    CHOOSE after \in {AddElement(h, bounds, CHOOSE data \in Datas : TRUE).grid : h \in {g}} : TRUE
Moved(g, id, new_location) ==
    CHOOSE after \in {UpdateElementLocation(h, id, new_location).grid : h \in {g}} : TRUE

\* The grid after UpdateElementLocation has taken id to the centre of every
\* cell of cells, one after the other.
RECURSIVE Walked(_, _, _)
Walked(g, id, cells) ==
    IF cells = {} THEN g
    ELSE LET c == CHOOSE d \in cells : TRUE
         IN Walked(Moved(g, id, CellCenter(g, c)), id, cells \ {c})

EmptyGrid == NewGrid(ZeroVector, ZeroBox)
\* One sphere at location: one cell.
OneElementGrid(location) == Added(EmptyGrid, MakeSphere(location, 1))
\* The sphere was moved through the 27 cells around the grid origin and then
\* to location: 27 cells, one of them occupied.
WalkedGrid(location) ==
    Moved(Walked(OneElementGrid(location), ElementId(0, 1), CellRangeOffsets(1)),
          ElementId(0, 1), location)
\* A box was added to the 27 cells, in the cell of the sphere or next to it.
TwoElementGrid(location) == Added(WalkedGrid(location), MakeBox(ZeroVector, <<1, 1, 1>>))
\* AddElement, RemoveElement of the returned id, AddElement.
ReAddedGrid(location) ==
    Added(RemoveElement(OneElementGrid(location), ElementId(0, 1)).grid,
          MakeSphere(location, 1))

QueryGrids ==
    {EmptyGrid}
        \cup {OneElementGrid(location) : location \in Locations}
        \cup {WalkedGrid(location) : location \in Locations}
        \cup {TwoElementGrid(location) : location \in Locations}
        \cup {ReAddedGrid(location) : location \in Locations}

\* Query origins: the element locations and a point two cells away.
QueryOrigins == Locations \cup {<<CellSize + CellSize, 0, 0>>}
\* Query radii: negative, zero, and positive up to a cell.
QueryRadii == {-(CellSize + HalfCellSize + 1), -1, 0, 1, HalfCellSize, CellSize}

QueryInit ==
    /\ Map = EmptySlotMap
    /\ Grid \in QueryGrids
    /\ issued = {}
    /\ stored = <<>>
    /\ call = [op |-> "none"]
    /\ fault = "none"
    /\ held = {}
    /\ pending = NoPending

\* TSphereQueryBuilder::SetRadius(Radius).Build<Cached>().SetOrigin(Origin).Each(grid, func)
QueryCachedEach(Origin, Radius, tie_inner) ==
    /\ fault = "none"
    /\ LET query == BuildCached(Radius, tie_inner)
           r == CachedEach(Grid, query, Origin)
       IN /\ call' = [op |-> "CachedEach", Origin |-> Origin, Radius |-> Radius,
                      emitted |-> r.emitted, calls |-> r.calls,
                      listed |-> ~(CellCount(query) > NumCells(Grid)),
                      inner |-> Cardinality(query.InnerCells),
                      query |-> query]
          /\ fault' = r.fault
    /\ UNCHANGED <<Map, Grid, issued, stored, held, pending>>

\* TSphereQueryBuilder::SetRadius(Radius).Build<UnCached>().SetOrigin(Origin).Each(grid, func)
QueryUncachedEach(Origin, Radius) ==
    /\ fault = "none"
    /\ LET r == UncachedEach(Grid, Radius, Origin)
       IN /\ call' = [op |-> "UncachedEach", Origin |-> Origin, Radius |-> Radius,
                      emitted |-> r.emitted, calls |-> r.calls,
                      listed |-> ~(CellRangeCount(RoundDiv(Radius, CellSize) + 1) > NumCells(Grid)),
                      inner |-> 0,
                      query |-> [Radius |-> Radius, InnerCells |-> {}, EdgeCells |-> {},
                                 OuterCells |-> {}]]
          /\ fault' = r.fault
    /\ UNCHANGED <<Map, Grid, issued, stored, held, pending>>

\* Radii handed to the builder alone: those of the queries, and two that
\* give inner cells (the second one inner cells next to the cell of the origin).
BuilderRadii == QueryRadii \cup {CellSize + CellSize, CellSize + CellSize + CellSize - 1}

\* TSphereQueryBuilder::SetRadius(Radius).Build<Cached>()
QueryBuildCached(Radius, tie_inner) ==
    /\ fault = "none"
    /\ call' = [op |-> "BuildCached", Radius |-> Radius,
                query |-> BuildCached(Radius, tie_inner)]
    /\ UNCHANGED <<Map, Grid, issued, stored, fault, held, pending>>

QueryNext ==
    \/ \E Origin \in QueryOrigins, Radius \in QueryRadii, tie_inner \in BOOLEAN :
           QueryCachedEach(Origin, Radius, tie_inner)
    \/ \E Radius \in BuilderRadii, tie_inner \in BOOLEAN : QueryBuildCached(Radius, tie_inner)
    \/ \E Origin \in QueryOrigins, Radius \in QueryRadii : QueryUncachedEach(Origin, Radius)

QuerySpec == QueryInit /\ [][QueryNext]_vars

\* -------------------------------------------------- traces on a grid
\* End points of segments, on and off the lines through the elements.
TracePoints ==
    {<<-(CellSize + CellSize), 0, 0>>, <<-CellSize, 0, 0>>, ZeroVector,
     <<CellSize + CellSize, 0, 0>>, <<0, -(CellSize + CellSize), 0>>, <<0, CellSize + CellSize, 0>>,
     <<-(CellSize + CellSize), CellSize, 0>>, <<CellSize + CellSize, CellSize, 0>>,
     <<HalfCellSize, -(CellSize + CellSize), 0>>, <<HalfCellSize, CellSize + CellSize, 0>>}
\* Segments along one axis, and segments of no length.
Segments ==
    {seg \in TracePoints \X TracePoints :
         Cardinality({k \in 1..3 : seg[1][k] # seg[2][k]}) <= 1}

TraceInit ==
    /\ Map = EmptySlotMap
    /\ Grid \in QueryGrids
    /\ issued = {}
    /\ stored = <<>>
    /\ call = [op |-> "none"]
    /\ fault = "none"
    /\ held = {}
    /\ pending = NoPending

\* TLineTrace(Start, End).Single(grid)
TraceSingle(Start, End) ==
    /\ fault = "none"
    /\ LET r == Single(Grid, TLineTrace(Start, End))
       IN /\ call' = [op |-> "Single", Start |-> Start, End |-> End, result |-> r.result,
                      emitted |-> {}, sweeps |-> r.sweeps]
          /\ fault' = r.fault
    /\ UNCHANGED <<Map, Grid, issued, stored, held, pending>>

\* TLineTrace(Start, End).Multi(grid, func)
TraceMulti(Start, End) ==
    /\ fault = "none"
    /\ LET r == Multi(Grid, TLineTrace(Start, End))
       IN /\ call' = [op |-> "Multi", Start |-> Start, End |-> End, result |-> NoQueryResult,
                      emitted |-> r.emitted, sweeps |-> r.sweeps]
          /\ fault' = r.fault
    /\ UNCHANGED <<Map, Grid, issued, stored, held, pending>>

\* Cells and crossing times a traversal hands to Progress.
ProgressCells == {<<1, -1, 2>>}
ProgressTimes == {0, HalfCellSize, CellSize}
\* A segment towards +x, one towards -y and one of no length.
ProgressSegments ==
    {<<ZeroVector, <<CellSize + CellSize, 0, 0>>>>,
     <<ZeroVector, <<0, -(CellSize + CellSize), 0>>>>,
     <<ZeroVector, ZeroVector>>}

\* TLineTrace(Start, End).Progress(current_cell, t_max)
TraceProgress(Start, End, current_cell, t_max) ==
    /\ fault = "none"
    /\ LET r == Progress(TLineTrace(Start, End), current_cell, t_max)
       IN call' = [op |-> "Progress", Start |-> Start, End |-> End, result |-> NoQueryResult,
                   emitted |-> {}, sweeps |-> <<>>,
                   current_cell |-> current_cell, t_max |-> t_max, next |-> r]
    /\ UNCHANGED <<Map, Grid, issued, stored, fault, held, pending>>

TraceNext ==
    \/ \E seg \in Segments : TraceSingle(seg[1], seg[2])
    \/ \E seg \in Segments : TraceMulti(seg[1], seg[2])
    \/ \E seg \in ProgressSegments, current_cell \in ProgressCells,
          t_max \in ProgressTimes \X ProgressTimes \X ProgressTimes :
           TraceProgress(seg[1], seg[2], current_cell, t_max)

TraceSpec == TraceInit /\ [][TraceNext]_vars

\* ------------------------------------------------------------ claims
\* The payload Get(id) points at, as an optional: NullOpt for nullptr or for a
\* pointer that is not dereferenceable.
Lookup(sm, id) ==
    IF Dereferenceable(sm, Get(sm, id)) THEN Some(At(sm.Dense, Get(sm, id)).second) ELSE NullOpt

\* C1: every id Insert has returned looks up the payload of that Insert while
\* no Remove(id) has succeeded since, and looks up nothing otherwise.
C1_GetFollowsInsertRemove ==
    \A id \in issued :
        IF id \in DOMAIN stored
        THEN Lookup(Map, id) = Some(stored[id])
        ELSE Get(Map, id) = NullPtr

\* C2: an id Insert returns was never returned before, and no two dense
\* records carry the same id.
C2_InsertReturnsFreshId ==
    /\ \A value \in Payloads :
           Insert(Map, value).fault = "none" => Insert(Map, value).id \notin issued
    /\ \A j, k \in 1..Len(Map.Dense) : Map.Dense[j].first = Map.Dense[k].first => j = k

OccupiedSlots(sm) == {i \in 0..(Len(sm.Slots) - 1) : IsOccupied(At(sm.Slots, i))}

\* C3: every occupied slot i has an odd version and points at a dense record
\* whose id is (i, version of the slot); as many slots are occupied as there
\* are dense records.
C3_OccupiedSlotBacksItsRecord ==
    /\ \A i \in OccupiedSlots(Map) :
           LET slot == At(Map.Slots, i) IN
           /\ slot.Version % 2 = 1
           /\ slot.IdxOrFree < Len(Map.Dense)
           /\ At(Map.Dense, slot.IdxOrFree).first = ElementId(i, slot.Version)
    /\ Cardinality(OccupiedSlots(Map)) = Len(Map.Dense)

\* The versions of the ids with index i that Insert has returned.
IssuedVersions(i) == {id.Version : id \in {j \in issued : j.Index = i}}
SetMax(S) == CHOOSE m \in S : \A n \in S : n <= m

\* C4: a slot's version is odd exactly while the slot holds an element that
\* was inserted and not removed, it never decreases, and an Insert that
\* reuses slot i returns a version 2 above the latest one issued for i.
C4_VersionParityAndReuse ==
    [][/\ \A i \in 0..(Len(Map'.Slots) - 1) :
              IsOccupied(At(Map'.Slots, i)) <=> (\E id \in DOMAIN stored' : id.Index = i)
       /\ \A i \in 0..(Len(Map.Slots) - 1) :
              /\ i < Len(Map'.Slots)
              /\ At(Map'.Slots, i).Version >= At(Map.Slots, i).Version
       /\ (call'.op = "Insert" /\ Len(Map'.Dense) > Len(Map.Dense)
              /\ IssuedVersions(call'.id.Index) # {})
           => call'.id.Version = SetMax(IssuedVersions(call'.id.Index)) + 2
      ]_vars

\* An id that Remove and Get reject: index out of range, slot vacant (even
\* version) or version different from the slot's.
Stale(sm, id) ==
    \/ id.Index >= Len(sm.Slots)
    \/ At(sm.Slots, id.Index).Version % 2 = 0
    \/ At(sm.Slots, id.Index).Version # id.Version

\* C5: Remove and Get of a stale id return nothing and change nothing; an id
\* whose Remove just succeeded is stale.
C5_StaleIdIsNoOp ==
    /\ \A id \in Ids :
           Stale(Map, id) =>
               /\ Remove(Map, id) = [map |-> Map, ret |-> NullOpt, fault |-> "none"]
               /\ Get(Map, id) = NullPtr
    /\ (call.op = "Remove" /\ call.ret # NullOpt) => Stale(Map, call.id)

\* C5 witness: the latest call was a Remove of an id that Insert had returned
\* and an earlier Remove had taken out; it returned nothing.
C5_Witness ==
    /\ call.op = "Remove"
    /\ call.ret = NullOpt
    /\ call.id \in issued
    /\ call.id \notin DOMAIN stored
    /\ fault = "none"

\* C6: ApplyAt calls the visitor once with (id, payload) when Get(id) is not
\* null and not at all otherwise, and never reads Slots out of range.
C6_ApplyAtVisitsLiveOnce ==
    \A id \in Ids :
        LET r == ApplyAt(Map, id) IN
        /\ r.fault # "ub"
        /\ IF Dereferenceable(Map, Get(Map, id))
           THEN r.visits = <<At(Map.Dense, Get(Map, id))>>
           ELSE r.visits = <<>>

\* C7: every element record of the grid lies in the cell of its origin, the
\* cell table has that cell, and the cell's id set holds the record's id.
C7_ElementsAreInTheirCells ==
    \A k \in 1..Len(Grid.Elements.Dense) :
        LET id == Grid.Elements.Dense[k].first
            e == Grid.Elements.Dense[k].second
        IN /\ e.Cell = LocationToCoordinates(Grid, e.Bounds.Origin)
           /\ e.Cell \in DOMAIN Grid.Cells
           /\ id \in Grid.Cells[e.Cell].Elements

\* Bounds that AddElement accepts.
ValidBounds == {b \in BoundsInputs : GetRadiusSquared(b) < HalfCellSize * HalfCellSize}

C9_UpdateThenGetOrigin ==
    fault = "none" =>
    \A id \in DOMAIN stored, x \in Locations :
        LET r == UpdateElementLocation(Grid, id, x)
            element == GetElement(r.grid, id)
        IN /\ r.fault = "none"
           /\ Dereferenceable(r.grid.Elements, element)
           /\ At(r.grid.Elements.Dense, element).second.Bounds.Origin = x

\* C10: UpdateElementLocation and RemoveElement with an id that AddElement
\* never returned, or whose element was removed, change nothing.
C10_DeadIdChangesNothing ==
    fault = "none" =>
    \A id \in Ids \ DOMAIN stored :
        /\ RemoveElement(Grid, id) = [grid |-> Grid, fault |-> "none"]
        /\ \A x \in Locations :
               UpdateElementLocation(Grid, id, x) = [grid |-> Grid, fault |-> "none"]

\* box `outer` contains box `inner` (an invalid inner box holds no point).
BoxContains(outer, inner) ==
    inner.IsValid # 0 =>
        /\ outer.IsValid # 0
        /\ \A k \in 1..3 : outer.Min[k] <= inner.Min[k] /\ inner.Max[k] <= outer.Max[k]

\* C11: the envelope contains the box (CellCenter +- half a cell) of every
\* cell that holds an element and of every cell that has held one.
C11_EnvelopeContainsOccupiedCells ==
    \A c \in held \cup Occupied(Grid) : BoxContains(Grid.Bounds, CellBox(Grid, c))

\* C11 witness: a cell that has held an element is no longer in the table,
\* another cell holds one, and no call has failed.
C11_Witness ==
    /\ fault = "none"
    /\ held \ DOMAIN Grid.Cells # {}
    /\ Occupied(Grid) # {}

\* C12: every call leaves an envelope that contains the one before it;
\* RemoveElement and ClearEmptyCells leave the envelope as it was.
C12_EnvelopeNeverShrinks ==
    [][/\ BoxContains(Grid'.Bounds, Grid.Bounds)
       /\ call'.op \in {"RemoveElement", "ClearEmptyCells"} => Grid'.Bounds = Grid.Bounds
      ]_vars

\* C12 witness: UpdateElementLocation has moved an element, and the envelope
\* spans more than one cell along some axis.
C12_Witness ==
    /\ call.op = "UpdateElementLocation"
    /\ call.found
    /\ fault = "none"
    /\ Grid.Bounds.IsValid # 0
    /\ \E k \in 1..3 : Grid.Bounds.Max[k] - Grid.Bounds.Min[k] > CellSize

\* C13: a ClearEmptyCells call leaves exactly the cells whose id set was not
\* empty, each as it was, and leaves the element records alone.
C13_ClearKeepsOccupiedCells ==
    [][call'.op = "ClearEmptyCells" =>
          /\ DOMAIN Grid'.Cells = Occupied(Grid)
          /\ \A c \in Occupied(Grid) : Grid'.Cells[c] = Grid.Cells[c]
          /\ \A c \in DOMAIN Grid'.Cells : Grid'.Cells[c].Elements # {}
          /\ Grid'.Elements = Grid.Elements
      ]_vars

\* C13 witness: the latest call was ClearEmptyCells; it erased a cell that
\* had held an element and kept a cell that holds one.
C13_Witness ==
    /\ call.op = "ClearEmptyCells"
    /\ held \ DOMAIN Grid.Cells # {}
    /\ DOMAIN Grid.Cells # {}

\* C14: a RemoveElement call leaves the set of cell coordinates (and so
\* NumCells) as it was; a call that takes a cell out of the table is a
\* ClearEmptyCells call.
C14_RemoveKeepsCells ==
    [][/\ call'.op = "RemoveElement" =>
              /\ DOMAIN Grid'.Cells = DOMAIN Grid.Cells
              /\ NumCells(Grid') = NumCells(Grid)
       /\ ~(DOMAIN Grid.Cells \subseteq DOMAIN Grid'.Cells) => call'.op = "ClearEmptyCells"
      ]_vars

\* C14 witness: the latest call, a RemoveElement, took the last member out of
\* a cell that is still in the table while another element is stored.
C14_Witness ==
    /\ call.op = "RemoveElement"
    /\ call.removed
    /\ fault = "none"
    /\ Len(Grid.Elements.Dense) > 0
    /\ \E c \in held \cap DOMAIN Grid.Cells : Grid.Cells[c].Elements = {}

\* Bounds that AddElement rejects.
OversizedBounds == BoundsInputs \ ValidBounds

\* C15: AddElement with bounds of radius >= half the cell size fails its
\* check and leaves the grid as it was; every stored element has a radius
\* below half the cell size.
C15_OversizedBoundsAreRejected ==
    /\ fault = "none" =>
           \A b \in OversizedBounds, p \in Datas :
               /\ AddElement(Grid, b, p).fault = "check"
               /\ AddElement(Grid, b, p).grid = Grid
    /\ \A k \in 1..Len(Grid.Elements.Dense) :
           GetRadiusSquared(Grid.Elements.Dense[k].second.Bounds) < HalfCellSize * HalfCellSize

\* C15 witness: an AddElement call has just failed its check while an
\* element is stored.
C15_Witness ==
    /\ call.op = "AddElement"
    /\ fault = "check"
    /\ Len(Grid.Elements.Dense) > 0

\* Ids in the cell sets of g that Get does not find.
DeadIdsInCells(g) ==
    {id \in UNION {g.Cells[c].Elements : c \in DOMAIN g.Cells} : Get(g.Elements, id) = NullPtr}

\* C16: no step reads or writes the slot map outside the mutex or through a
\* stale pointer; the locked part of UpdateElementLocation(id, x) leaves the
\* grid the call would leave when run alone at that point of the serial
\* order, writes x into no record but that of id and adds no dead id to a
\* cell set.
C16_CallsAreSerialized ==
    [][/\ fault' # "ub"
       /\ call'.op = "UpdateLocked" =>
              /\ Grid' = UpdateElementLocation(Grid, call'.id, call'.new_location).grid
              /\ \A k \in 1..Len(Grid.Elements.Dense) :
                     Grid.Elements.Dense[k].first # call'.id
                         => /\ k <= Len(Grid'.Elements.Dense)
                            /\ Grid'.Elements.Dense[k] = Grid.Elements.Dense[k]
              /\ DeadIdsInCells(Grid') \subseteq DeadIdsInCells(Grid)
      ]_vars

\* The ids of the element records whose bounds overlap the sphere: the
\* brute-force answer to a sphere query.
Overlapping(g, Origin, radius) ==
    {g.Elements.Dense[k].first :
         k \in {j \in 1..Len(g.Elements.Dense) :
                    OverlapsSphere(g.Elements.Dense[j].second.Bounds, Origin, radius)}}

\* C17: a cached or on-demand sphere query with a radius above 0 emits the
\* ids of exactly the stored elements whose bounds overlap the sphere.
C17_QueryEmitsOverlapping ==
    (call.op \in {"CachedEach", "UncachedEach"} /\ call.Radius > 0) =>
        /\ fault = "none"
        /\ call.emitted = Overlapping(Grid, call.Origin, call.Radius)

\* C18: when UpdateElementLocation(id, x) moves an element to another cell,
\* a cached query at x emits id, and a cached query at the previous origin
\* whose sphere does not overlap the moved bounds does not emit id.
C18_QueryFollowsMove ==
    fault = "none" =>
    \A id \in DOMAIN stored, x \in Locations, radius \in {r \in QueryRadii : r > 0},
       tie_inner \in BOOLEAN :
        LET before == GetElement(Grid, id)
            r == UpdateElementLocation(Grid, id, x)
            query == BuildCached(radius, tie_inner)
        IN (/\ Dereferenceable(Grid.Elements, before)
            /\ r.fault = "none"
            /\ At(Grid.Elements.Dense, before).second.Cell # LocationToCoordinates(Grid, x))
           => LET previous == At(Grid.Elements.Dense, before).second.Bounds.Origin
                  bounds == At(r.grid.Elements.Dense, before).second.Bounds
              IN /\ id \in CachedEach(r.grid, query, x).emitted
                 /\ ~OverlapsSphere(bounds, previous, radius)
                        => id \notin CachedEach(r.grid, query, previous).emitted

\* C19: a cached or on-demand sphere query with a radius of 0 or below emits
\* nothing.
C19_NoRadiusNoElement ==
    (call.op \in {"CachedEach", "UncachedEach"} /\ call.Radius <= 0) =>
        /\ fault = "none"
        /\ call.emitted = {}

\* C19 witness: a cached query with a radius of 0 or below went through its
\* cell lists, the cell of its origin among the inner cells, and an element
\* lies in that cell, centred at the query origin.
C19_Witness ==
    /\ call.op = "CachedEach"
    /\ call.Radius <= 0
    /\ call.listed
    /\ call.inner > 0
    /\ call.emitted = {}
    /\ \E k \in 1..Len(Grid.Elements.Dense) :
           /\ Grid.Elements.Dense[k].second.Bounds.Origin = call.Origin
           /\ Grid.Elements.Dense[k].second.Cell = LocationToCoordinates(Grid, call.Origin)
           /\ Grid.Elements.Dense[k].first
                  \in Grid.Cells[LocationToCoordinates(Grid, call.Origin)].Elements

\* The hits of the segment on the stored elements: the brute-force answer
\* to a line trace.
SegmentHits(g, trace) ==
    {[id |-> g.Elements.Dense[k].first,
      hit_loc |-> LineHitPoint(g.Elements.Dense[k].second.Bounds, trace.Start, trace.End,
                               trace.Dir, trace.InvDir)[1]] :
         k \in {j \in 1..Len(g.Elements.Dense) :
                    LineHitPoint(g.Elements.Dense[j].second.Bounds, trace.Start, trace.End,
                                 trace.Dir, trace.InvDir) # NullOpt}}

\* C20: when the segment hits stored elements, Single returns a blocking hit
\* on one of them whose hit point is nearest to the start of the segment,
\* with that hit point as impact point.
C20_SingleReturnsNearestHit ==
    call.op = "Single" =>
        LET hits == SegmentHits(Grid, TLineTrace(call.Start, call.End)) IN
        hits # {} =>
            /\ fault = "none"
            /\ call.result.BlockingHit
            /\ \E h \in hits :
                   /\ call.result.ElementId = h.id
                   /\ call.result.ImpactPoint = h.hit_loc
                   /\ \A k \in hits : DistSquared(call.Start, h.hit_loc)
                                          <= DistSquared(call.Start, k.hit_loc)

\* The analytical test of the segment of the latest trace against the bounds
\* of a stored record.
SegmentHitsRecord(record) ==
    LET trace == TLineTrace(call.Start, call.End) IN
    LineHitPoint(record.second.Bounds, trace.Start, trace.End, trace.Dir, trace.InvDir)
        # NullOpt

\* C21: on a grid holding exactly one element, a segment query reports the
\* element (Multi emits it, Single returns a blocking hit with its id) if and
\* only if Bounds::LineHitPoint succeeds for the segment and its bounds.
C21_OneElementTraceMatchesTest ==
    (call.op \in {"Single", "Multi"} /\ Len(Grid.Elements.Dense) = 1) =>
        LET record == Grid.Elements.Dense[1]
            reported == IF call.op = "Multi"
                        THEN record.first \in {r.id : r \in call.emitted}
                        ELSE call.result.BlockingHit /\ call.result.ElementId = record.first
        IN fault = "none" /\ (reported <=> SegmentHitsRecord(record))

\* C22: Multi calls the visitor exactly once for every stored element whose
\* bounds the segment hits, and never for any other id.
C22_MultiVisitsEachHitOnce ==
    call.op = "Multi" =>
        /\ fault = "none"
        /\ \A k \in 1..Len(Grid.Elements.Dense) :
               Cardinality({r \in call.emitted : r.id = Grid.Elements.Dense[k].first})
                   = IF SegmentHitsRecord(Grid.Elements.Dense[k]) THEN 1 ELSE 0
        /\ \A r \in call.emitted :
               \E k \in 1..Len(Grid.Elements.Dense) : Grid.Elements.Dense[k].first = r.id

\* The points of the segment of the latest trace with whole coordinates (the
\* segment runs along one axis between such points).
SegmentPoints ==
    LET dir == GetSafeNormal(VSub(call.End, call.Start))
        length == Abs(call.End[1] - call.Start[1]) + Abs(call.End[2] - call.Start[2])
                      + Abs(call.End[3] - call.Start[3])
    IN {VAdd(call.Start, VScale(dir, k)) : k \in 0..length}

\* The segment of the latest trace and the envelope of the grid, a closed box
\* with whole corners, have a point in common.
SegmentMeetsEnvelope ==
    \E p \in SegmentPoints :
        \A k \in 1..3 : Grid.Bounds.Min[k] <= p[k] /\ p[k] <= Grid.Bounds.Max[k]

\* C23: a trace whose segment has no point in common with the envelope of
\* the grid sweeps no cell; Multi calls the visitor zero times and Single
\* returns no blocking hit and the default id.
C23_MissedEnvelopeEmitsNothing ==
    (call.op \in {"Single", "Multi"} /\ ~SegmentMeetsEnvelope) =>
        /\ fault = "none"
        /\ call.sweeps = <<>>
        /\ call.emitted = {}
        /\ ~call.result.BlockingHit
        /\ call.result.ElementId = DefaultElementId

\* A trace on a grid with elements whose segment ends before the envelope or
\* points away from it, on a line that runs through the envelope.
C23_Witness ==
    /\ call.op \in {"Single", "Multi"}
    /\ ~SegmentMeetsEnvelope
    /\ Len(Grid.Elements.Dense) > 0
    /\ call.Start # call.End
    /\ LineIntersectsBox(Grid.Bounds, call.Start, TLineTrace(call.Start, call.End).InvDir)
    /\ call.sweeps = <<>>

\* C24: a trace of no length (start = end) emits nothing: Multi calls the
\* visitor zero times and Single returns no blocking hit.
C24_ZeroLengthEmitsNothing ==
    (call.op \in {"Single", "Multi"} /\ call.Start = call.End) =>
        /\ fault = "none"
        /\ call.emitted = {}
        /\ ~call.result.BlockingHit

\* A trace of no length whose point lies inside the envelope and inside the
\* bounds of a stored element, and which swept the cell of that element.
C24_Witness ==
    /\ call.op \in {"Single", "Multi"}
    /\ call.Start = call.End
    /\ IsInside(Grid.Bounds, call.Start)
    /\ \E k \in 1..Len(Grid.Elements.Dense) :
           /\ SegmentHitsRecord(Grid.Elements.Dense[k])
           /\ \E i \in 1..Len(call.sweeps) :
                  Grid.Elements.Dense[k].second.Cell \in call.sweeps[i].examined

\* The coordinates the sweeps before sweep i of the latest trace examined.
ExaminedBefore(i) == UNION {call.sweeps[j].examined : j \in 1..(i - 1)}

\* C30: at each cell c the traversal of a trace visits, the sweep examines
\* exactly the coordinates c + d, d in {-1,0,1}^3, that no earlier sweep of
\* the traversal examined (so no coordinate is examined twice).
C30_SweepIsCentredOnCell ==
    call.op \in {"Single", "Multi"} =>
        \A i \in 1..Len(call.sweeps) :
            call.sweeps[i].examined
                = {VAdd(call.sweeps[i].at, d) : d \in CellRangeOffsets(1)} \ ExaminedBefore(i)

\* C25: the default ElementId (index 0, version 0) is never live: Get of it
\* returns nullptr and Remove of it returns nothing in every state of the
\* slot map, and every id a successful Insert returned has version >= 1.
C25_DefaultIdIsNeverLive ==
    /\ Get(Map, DefaultElementId) = NullPtr
    /\ Remove(Map, DefaultElementId).ret = NullOpt
    /\ Remove(Map, DefaultElementId).map = Map
    /\ \A id \in issued : id.Version >= 1
    /\ (call.op = "Insert" /\ fault = "none") => call.id.Version >= 1

\* An Insert has returned an id while slot 0, the slot of the default id,
\* exists and is vacant.
C25_Witness ==
    /\ call.op = "Insert"
    /\ fault = "none"
    /\ Len(Map.Slots) > 1
    /\ ~IsOccupied(At(Map.Slots, DefaultElementId.Index))

\* C26: the bounds of every cell in the cell table are the geometric box of
\* the cell: its center minus and plus half the cell size on every axis.
C26_CellBoundsAreGeometric ==
    \A c \in DOMAIN Grid.Cells :
        /\ Grid.Cells[c].Bounds.Min = VSub(CellCenter(Grid, c), CellExtent)
        /\ Grid.Cells[c].Bounds.Max = VAdd(CellCenter(Grid, c), CellExtent)

\* max(|x|, |y|, |z|) of an offset.
MaxAbs(c) == Max2(Abs(c[1]), Max2(Abs(c[2]), Abs(c[3])))
\* The offsets of the cube [-b, b]^3 (none when b < 0).
Cube(b) == {<<x, y, z>> : x \in (-b)..b, y \in (-b)..b, z \in (-b)..b}
\* b = round(r / cell_size) + 1 of the query built last.
BuiltBound == RoundDiv(call.Radius, CellSize) + 1
\* The three offset lists of the query built last share no offset.
ListsAreDisjoint ==
    /\ call.query.InnerCells \cap call.query.EdgeCells = {}
    /\ call.query.InnerCells \cap call.query.OuterCells = {}
    /\ call.query.EdgeCells \cap call.query.OuterCells = {}

\* C27 as stated: the inner, edge and outer lists of a cached query built
\* with radius r are pairwise disjoint, their union is the cube [-b, b]^3,
\* their sizes sum to (2b+1)^3, every edge offset has max(|x|,|y|,|z|) < b
\* and every outer offset has max(|x|,|y|,|z|) = b.
C27_ListsPartitionCube ==
    call.op = "BuildCached" =>
        /\ ListsAreDisjoint
        /\ call.query.InnerCells \cup call.query.EdgeCells \cup call.query.OuterCells
               = Cube(BuiltBound)
        /\ CellCount(call.query) = (2 * BuiltBound + 1) * (2 * BuiltBound + 1)
                                       * (2 * BuiltBound + 1)
        /\ \A c \in call.query.EdgeCells : MaxAbs(c) < BuiltBound
        /\ \A c \in call.query.OuterCells : MaxAbs(c) = BuiltBound

\* C27 amended: the same with the cube [-|b|, |b|]^3 and the size
\* (2|b|+1)^3, every outer offset having max(|x|,|y|,|z|) >= b (which is = b
\* for b >= 0, as the offset lies in the cube).
C27_ListsPartitionAbsCube ==
    call.op = "BuildCached" =>
        /\ ListsAreDisjoint
        /\ call.query.InnerCells \cup call.query.EdgeCells \cup call.query.OuterCells
               = Cube(Abs(BuiltBound))
        /\ CellCount(call.query) = (2 * Abs(BuiltBound) + 1) * (2 * Abs(BuiltBound) + 1)
                                       * (2 * Abs(BuiltBound) + 1)
        /\ \A c \in call.query.EdgeCells : MaxAbs(c) < BuiltBound
        /\ \A c \in call.query.OuterCells : MaxAbs(c) >= BuiltBound
        /\ BuiltBound >= 0 => \A c \in call.query.OuterCells : MaxAbs(c) = BuiltBound

\* A query was built whose three lists all hold offsets, the inner list more
\* than the offset (0,0,0).
C27_Witness ==
    /\ call.op = "BuildCached"
    /\ Cardinality(call.query.InnerCells) > 1
    /\ call.query.EdgeCells # {}
    /\ call.query.OuterCells # {}

\* The corners of the geometric box of the cell at offset c from the cell
\* around the origin of the grid: the points of the box farthest from any
\* given point are among them.
CornersOfCell(c) ==
    {<<c[1] * CellSize + x, c[2] * CellSize + y, c[3] * CellSize + z>> :
         x \in {-HalfCellSize, HalfCellSize}, y \in {-HalfCellSize, HalfCellSize},
         z \in {-HalfCellSize, HalfCellSize}}
\* The whole points that LocationToCoordinates maps to the cell (0,0,0) of a
\* grid with origin (0,0,0).
PointsOfOwnCell ==
    {o \in {<<x, y, z>> : x \in (-HalfCellSize)..HalfCellSize,
                          y \in (-HalfCellSize)..HalfCellSize,
                          z \in (-HalfCellSize)..HalfCellSize} :
         RoundVecToInt(o, CellSize) = ZeroVector}

\* C28: for every inner offset c of a built query and every query origin o
\* in its own cell k, every point of the geometric box of cell k + c is
\* within distance Radius of o (stated for k = (0,0,0) in a grid with origin
\* (0,0,0); the lists do not depend on k).
C28_InnerCellsLieInSphere ==
    call.op = "BuildCached" =>
        \A c \in call.query.InnerCells, o \in PointsOfOwnCell :
            \A p \in CornersOfCell(c) :
                call.Radius >= 0 /\ DistSquared(o, p) <= call.Radius * call.Radius

\* C29: when a query would visit more cells than the grid holds, it goes
\* through every cell of the table with the per-cell sphere test, and it
\* emits the ids the path over the offsets (the three lists, or the cube
\* computed on demand) emits for the same grid, origin and radius.
C29_ShortCircuitEmitsTheSame ==
    (call.op \in {"CachedEach", "UncachedEach"} /\ ~call.listed) =>
        /\ fault = "none"
        /\ call.emitted = ForEachCellScan(Grid, call.Origin, call.Radius).emitted
        /\ call.emitted = IF call.op = "CachedEach"
                          THEN CachedLists(Grid, call.query, call.Origin).emitted
                          ELSE UncachedCube(Grid, call.Radius, call.Origin).emitted

\* A query with a radius above 0 took the short-circuit on a grid in which
\* the bounds of an element overlap its sphere.
C29_Witness ==
    /\ call.op \in {"CachedEach", "UncachedEach"}
    /\ ~call.listed
    /\ call.Radius > 0
    /\ Overlapping(Grid, call.Origin, call.Radius) # {}

\* The point at which the segment of the last trace enters the envelope of
\* the grid (NullOpt if it misses it).
EnvelopeHit ==
    LET trace == TLineTrace(call.Start, call.End)
    IN LineBoxHitPoint(Grid.Bounds, trace.Start, trace.End, trace.Dir, trace.InvDir)

\* ceil(|dx| / cs) + ceil(|dy| / cs) + ceil(|dz| / cs) + 1 for the deltas
\* from point from to point to.
StepBound(from, to) ==
    LET ceil(d) == IF d % CellSize = 0 THEN d \div CellSize ELSE d \div CellSize + 1
    IN ceil(Abs(to[1] - from[1])) + ceil(Abs(to[2] - from[2]))
           + ceil(Abs(to[3] - from[3])) + 1

\* C31: the loop of Single and of Multi runs at most max_steps times, with
\* max_steps computed from the envelope hit point to the end of the segment,
\* and it stops before max_steps only in a cell that is the end cell or lies
\* outside the envelope.
C31_LoopStopsWithinMaxSteps ==
    call.op \in {"Single", "Multi"} =>
        IF EnvelopeHit = NullOpt THEN call.sweeps = <<>>
        ELSE LET max_steps == StepBound(EnvelopeHit[1], call.End)
                 iterations == Len(call.sweeps)
             IN /\ iterations >= 1
                /\ iterations <= max_steps
                /\ iterations < max_steps =>
                       LET last == call.sweeps[iterations].at IN
                       \/ last = LocationToCoordinates(Grid, call.End)
                       \/ ~IsCellWithinBounds(Grid, last)

\* C31 witness: a trace over a grid with an element ran its loop max_steps
\* times, more than once, through cells inside the envelope.
C31_Witness ==
    /\ call.op \in {"Single", "Multi"}
    /\ Occupied(Grid) # {}
    /\ EnvelopeHit # NullOpt
    /\ Len(call.sweeps) > 1
    /\ Len(call.sweeps) = StepBound(EnvelopeHit[1], call.End)
    /\ IsCellWithinBounds(Grid, call.sweeps[1].at)

\* C31, early stop: a trace stopped before max_steps.
C31_WitnessEarly ==
    /\ call.op \in {"Single", "Multi"}
    /\ EnvelopeHit # NullOpt
    /\ Len(call.sweeps) < StepBound(EnvelopeHit[1], call.End)

\* The axes along which the last call of Progress moved the cell.
MovedAxes == {k \in 1..3 : call.next.current_cell[k] # call.current_cell[k]}
\* The axes whose crossing time is the least.
LeastAxes == {k \in 1..3 : \A j \in 1..3 : call.t_max[k] <= call.t_max[j]}

\* One call of Progress moves the cell along one axis a by that axis's step,
\* adds that axis's delta to its crossing time and leaves the two other
\* axes alone, and a has the least crossing time.
ProgressStepsOneLeastAxis ==
    LET trace == TLineTrace(call.Start, call.End) IN
    /\ Cardinality(MovedAxes) = 1
    /\ MovedAxes \subseteq LeastAxes
    /\ \A k \in 1..3 :
           IF k \in MovedAxes
           THEN /\ call.next.current_cell[k] = call.current_cell[k] + trace.Step[k]
                /\ call.next.t_max[k] = call.t_max[k] + trace.Delta[k]
           ELSE /\ call.next.current_cell[k] = call.current_cell[k]
                /\ call.next.t_max[k] = call.t_max[k]

\* C32 as stated: a step of Progress changes one coordinate by its step and
\* one crossing time by its delta, on an axis of least crossing time; of
\* equal least times x goes before y and y before z.
C32_ProgressTiesXBeforeYBeforeZ ==
    call.op = "Progress" =>
        /\ ProgressStepsOneLeastAxis
        /\ \A k \in MovedAxes : \A j \in LeastAxes : k <= j

\* C32 amended: as above, but of equal least times the axis that comes last
\* is crossed: z before y, and y before x.
C32_ProgressTiesZBeforeYBeforeX ==
    call.op = "Progress" =>
        /\ ProgressStepsOneLeastAxis
        /\ \A k \in MovedAxes : \A j \in LeastAxes : k >= j

\* C32 witness: Progress ran with the least crossing time on two axes.
C32_Witness ==
    /\ call.op = "Progress"
    /\ Cardinality(LeastAxes) = 2
    /\ call.t_max[1] = call.t_max[2]

\* The axes along which the segment of the last trace runs.
SegmentAxes == {k \in 1..3 : call.Start[k] # call.End[k]}
\* The axes along which cell c differs from the cell in which the segment
\* of the last trace enters the envelope, and by how much at most.
OffEntry(c, by) ==
    {k \in 1..3 : Abs(c[k] - LocationToCoordinates(Grid, EnvelopeHit[1])[k]) > by}

\* C33, the cells stepped to: a traversal of a segment parallel to one axis
\* stays in the row of its entry cell.
StaysInEntryRow ==
    \A i \in 1..Len(call.sweeps) : OffEntry(call.sweeps[i].at, 0) \subseteq SegmentAxes

\* C33: for a segment parallel to one axis every cell the traversal steps to
\* has the coordinates of the entry cell on the two other axes, and the cells
\* examined are the cells of that row and their 3x3 neighbours: every cell
\* examined is at most one cell off the row on the two other axes, and the
\* 3x3 cells across the row at every cell stepped to are examined.
C33_AxisParallelStaysInRow ==
    (call.op \in {"Single", "Multi"} /\ Cardinality(SegmentAxes) = 1 /\ EnvelopeHit # NullOpt) =>
        /\ StaysInEntryRow
        /\ \A i \in 1..Len(call.sweeps) :
               \A c \in call.sweeps[i].examined : OffEntry(c, 1) \subseteq SegmentAxes
        /\ \A i \in 1..Len(call.sweeps) :
               \A d \in CellRangeOffsets(1) :
                   (\A k \in SegmentAxes : d[k] = 0) =>
                       \E j \in 1..i : VAdd(call.sweeps[i].at, d) \in call.sweeps[j].examined

\* C33, the part that holds: the cells stepped to stay in the entry row.
C33_SteppedCellsStayInRow ==
    (call.op \in {"Single", "Multi"} /\ Cardinality(SegmentAxes) = 1 /\ EnvelopeHit # NullOpt) =>
        StaysInEntryRow

VacantSlots(sm) == {i \in 0..(Len(sm.Slots) - 1) : ~IsOccupied(At(sm.Slots, i))}

\* C34: an Insert that stores a value appends a slot only when no slot is
\* vacant; when a slot is vacant it leaves the number of slots as it was,
\* takes the slot at the head of the free list, makes it occupied and
\* returns its index.  So there are never more slots than elements that were
\* live at once (never more than MaxDense here).
C34_InsertReusesVacantSlot ==
    [][/\ (call'.op = "Insert" /\ Len(Map'.Dense) = Len(Map.Dense) + 1) =>
              IF VacantSlots(Map) = {}
              THEN Len(Map'.Slots) = Len(Map.Slots) + 1
              ELSE /\ Len(Map'.Slots) = Len(Map.Slots)
                   /\ Map.FreeHead \in VacantSlots(Map)
                   /\ call'.id.Index = Map.FreeHead
                   /\ IsOccupied(At(Map'.Slots, call'.id.Index))
       /\ Len(Map'.Slots) <= MaxDense
      ]_vars

\* C35: once there are as many slots as the index type can count, Insert
\* fails fatally and leaves the map as it is; an Insert that stores a value
\* returns the index at the head of the free list, not cut to the width of
\* the index type, and no slot with that index was occupied before the call.
C35_InsertNeverWrapsIndex ==
    \A value \in CyclePayloads :
        LET r == Insert(Map, value) IN
        /\ Len(Map.Slots) >= UIntMod => (r.fault = "fatal" /\ r.map = Map)
        /\ r.fault = "none" =>
               /\ r.id.Index = Map.FreeHead
               /\ r.id.Index \notin OccupiedSlots(Map)

\* The overflow alone: with as many slots as the index type can count,
\* Insert fails fatally.
C35_FullSlotsAreFatal ==
    \A value \in CyclePayloads :
        Len(Map.Slots) >= UIntMod => Insert(Map, value).fault = "fatal"

\* The cut index alone: the index Insert returns is the head of the free
\* list it took.
C35_IndexIsNotCut ==
    \A value \in CyclePayloads :
        Insert(Map, value).fault = "none" => Insert(Map, value).id.Index = Map.FreeHead

\* C36: a cached and an on-demand sphere query on the same grid, with the
\* same origin and the same radius, emit the same ids, and neither calls the
\* visitor twice with one id.
C36_CachedAndUncachedAgree ==
    (call.op \in {"CachedEach", "UncachedEach"}) =>
        /\ fault = "none"
        /\ \A tie_inner \in BOOLEAN :
               /\ CachedEach(Grid, BuildCached(call.Radius, tie_inner), call.Origin).emitted
                      = UncachedEach(Grid, call.Radius, call.Origin).emitted
               /\ call.emitted = UncachedEach(Grid, call.Radius, call.Origin).emitted
        /\ \A x, y \in call.calls : x[2] = y[2] => x = y

\* C36 witness: a query with a radius above 0 went over its offsets (not
\* through the short-circuit) on a grid in which the bounds of an element
\* overlap its sphere.
C36_Witness ==
    /\ call.op \in {"CachedEach", "UncachedEach"}
    /\ call.listed
    /\ call.Radius > 0
    /\ Overlapping(Grid, call.Origin, call.Radius) # {}

\* The cells whose id set holds id.
CellsHolding(g, id) == {c \in DOMAIN g.Cells : id \in g.Cells[c].Elements}

\* C37: every id in the set of a cell is live, GetElement gives its record
\* and the record names that cell; every id of a dense record is in the set
\* of exactly one cell.  So no cell holds the id of a removed element.
C37_CellsHoldTheLiveIds ==
    /\ \A c \in DOMAIN Grid.Cells : \A id \in Grid.Cells[c].Elements :
           /\ Dereferenceable(Grid.Elements, GetElement(Grid, id))
           /\ At(Grid.Elements.Dense, GetElement(Grid, id)).second.Cell = c
    /\ \A k \in 1..Len(Grid.Elements.Dense) :
           Cardinality(CellsHolding(Grid, Grid.Elements.Dense[k].first)) = 1

\* C38: Contains(id) is true exactly when Get(id) returns a record.
C38_ContainsIffGet ==
    \A id \in Ids : Contains(Map, id) <=> (Get(Map, id) # NullPtr)

\* The slots met when following IdxOrFree from slot index i, for at most n
\* links, up to the first index that is no vacant slot.
RECURSIVE FreeChain(_, _, _)
FreeChain(sm, i, n) ==
    IF n = 0 \/ i \notin VacantSlots(sm) THEN <<>>
    ELSE <<i>> \o FreeChain(sm, At(sm.Slots, i).IdxOrFree, n - 1)

\* The index at which the walk of FreeChain stops.
RECURSIVE FreeChainEnd(_, _, _)
FreeChainEnd(sm, i, n) ==
    IF n = 0 \/ i \notin VacantSlots(sm) THEN i
    ELSE FreeChainEnd(sm, At(sm.Slots, i).IdxOrFree, n - 1)

\* C39: the walk from FreeHead along IdxOrFree goes through every vacant
\* slot once and through no occupied slot, and ends at Slots.size(); there
\* are Slots.size() - Dense.size() vacant slots.
C39_FreeListIsWellFormed ==
    LET chain == FreeChain(Map, Map.FreeHead, Len(Map.Slots) + 1) IN
    /\ {chain[k] : k \in 1..Len(chain)} = VacantSlots(Map)
    /\ Len(chain) = Cardinality(VacantSlots(Map))
    /\ FreeChainEnd(Map, Map.FreeHead, Len(Map.Slots) + 1) = Len(Map.Slots)
    /\ Cardinality(VacantSlots(Map)) = Len(Map.Slots) - Len(Map.Dense)

====
